----------------------------- MODULE MCForwarder -----------------------------
(***************************************************************************)
(* Small instances of Forwarder.  The intervals are a few ticks long, in   *)
(* the proportions of the code: a renewal may take twice as long as the    *)
(* shortest interval, as ten seconds are to five, and the model runs for   *)
(* longer than the longest interval, so that claims are pruned.            *)
(***************************************************************************)
EXTENDS Forwarder, TLC

Nothing == [e \in Event |-> 0]

Racing == "visit" :> 3 @@ Nothing
Restarting == "visit" :> 3 @@ "restart" :> 1 @@ Nothing
Editing == "visit" :> 2 @@ "edit" :> 1 @@ Nothing
Closing == "visit" :> 2 @@ "close" :> 1 @@ Nothing

All == {Racing, Restarting, Editing, Closing}
OnlyRacing == {Racing}
OnlyClosing == {Closing}

Symmetry == Permutations(Request) \cup Permutations(Process)
=============================================================================
