-------------------------------- MODULE Names --------------------------------
(***************************************************************************)
(* The names of what the operator makes of a pull request                  *)
(* (internal/utils/resourcenames.go, labels.go), and images of the same    *)
(* repository (validation.go).                                             *)
(*                                                                         *)
(* A name is the sequence of its characters, which are of the classes that *)
(* normalize tells apart.  A template is the sequence of its characters    *)
(* and variables, and an image has its three parts.                        *)
(***************************************************************************)
EXTENDS SequencesExt, Integers

CONSTANTS
    Letter,         \* lowercase letters
    Digit,
    Upper,          \* characters that have a lowercase letter,
    lowercase,      \* and which one
    Disallowed,     \* all other characters but separators and spaces
    MaxLength,      \* of a DNS label, 63
    MaxHost,        \* of a hostname, 253
    BranchCharacter,
    MaxBranch,      \* how long branch names get
    OtherBranches,  \* branches that hostnames are compared with
    App,            \* the name of the ReviewAppConfig
    RandomIDs,      \* of PullRequests, the start of their UIDs
    Deployments,    \* of ReviewAppConfigs: a name, a host template and an image
    Image           \* a repository, a tag and a digest

Alphanumeric == Letter \cup Digit
Separator == {"-", "/", "_", "."}
Character == Alphanumeric \cup Separator \cup Upper \cup Disallowed \cup {" "}

Variable == {"BranchName", "ReviewAppConfig", "DeploymentName", "RandomID", "Misspelled"}
NoName == <<"error">>

(* Classes have no character in common.                                    *)
ASSUME CharacterAssumption ==
    /\ Letter # {} /\ lowercase \in [Upper -> Letter]
    /\ Letter \cap Digit = {} /\ Upper \cap Alphanumeric = {}
    /\ Disallowed \cap (Alphanumeric \cup Upper) = {}
    /\ (Separator \cup {" "}) \cap (Alphanumeric \cup Upper \cup Disallowed) = {}
    /\ (Variable \cup {"error"}) \cap Character = {}

(* Branches of git have no spaces.  The API server allows what it does in   *)
(* names of objects, and checks host templates; names of deployments may   *)
(* be anything.  All random IDs are of the same length.                    *)
ASSUME NameAssumption ==
    /\ MaxLength \in Nat \ {0} /\ MaxHost \in Nat /\ MaxBranch \in Nat
    /\ BranchCharacter \subseteq Character \ {" "}
    /\ OtherBranches \subseteq Seq(BranchCharacter)
    /\ App \in Seq(Alphanumeric \cup {"-", "."})
    /\ RandomIDs \subseteq Seq(Alphanumeric) \ {<<>>}
    /\ \A x, y \in RandomIDs : Len(x) = Len(y)
    /\ \A d \in Deployments :
          /\ d.name \in Seq(Character) /\ d.image \in Image
          /\ d.template \in Seq(Alphanumeric \cup {"-", "."} \cup Variable)

VARIABLES
    branch,     \* the branch of a pull request
    deployment  \* a deployment it has

vars == <<branch, deployment>>

DeploymentNames == {d.name : d \in Deployments}
template == deployment.template
image == deployment.image

-----------------------------------------------------------------------------
(* Names of resources.                                                     *)

lower(s) == [i \in DOMAIN s |-> IF s[i] \in Upper THEN lowercase[s[i]] ELSE s[i]]

(* From the first, and up to the last of the given characters.             *)
From(s, C) ==
    LET first == SelectInSeq(s, LAMBDA c : c \in C)
    IN IF first = 0 THEN <<>> ELSE SubSeq(s, first, Len(s))
UpTo(s, C) == SubSeq(s, 1, SelectLastInSeq(s, LAMBDA c : c \in C))

TrimSpace(s) == UpTo(From(s, Character \ {" "}), Character \ {" "})

allowed(s) ==
    FoldLeft(LAMBDA done, c :
                 IF c \in Alphanumeric \cup Separator \cup {" "} THEN Append(done, c) ELSE done,
             <<>>, s)

(* Mutant: only dashes are separators.                                     *)
dashes(s) ==
    FoldLeft(LAMBDA done, c :
                 IF c = "-" /\ done # <<>> /\ Last(done) = "-" THEN done ELSE Append(done, c),
             <<>>, s)

(* A run of separators becomes a single dash.                              *)
collapsed(s) ==
    FoldLeft(LAMBDA done, c :
                 IF c \notin Separator THEN Append(done, c)
                 ELSE IF done # <<>> /\ Last(done) = "-" THEN done ELSE Append(done, "-"),
             <<>>, s)

stripped(s) == UpTo(From(s, Letter), Alphanumeric)

once(s) == stripped(collapsed(allowed(TrimSpace(lower(s)))))

(* Mutant: nothing is stripped from what is cut.                           *)
cutOnly(s) == IF Len(s) > MaxLength THEN SubSeq(s, 1, MaxLength) ELSE s

(* What is cut is normalized again, which cuts nothing.                    *)
cut(s) == IF Len(s) > MaxLength THEN once(SubSeq(s, 1, MaxLength)) ELSE s

normalize(s) == cut(once(s))

GetResourceName(names) ==
    normalize(FlattenSeq([i \in DOMAIN names |->
        IF i = 1 THEN names[i] ELSE <<"-">> \o names[i]]))

GetPullRequestName(b) == GetResourceName(<<App, b>>)

(* Mutant: the branch comes first.                                         *)
branchFirst(b, d) == GetResourceName(<<b, App, d>>)

GetDeploymentName(b, d) == GetResourceName(<<App, d, b>>)

(* The labels that select the pods of a deployment.                        *)
GetSelectorLabels(b, d) ==
    [name |-> normalize(b), partOf |-> normalize(App),
     instance |-> LET instance == GetResourceName(<<App, b>>)
                  IN IF d = <<>> THEN instance ELSE GetResourceName(<<instance, d>>)]

-----------------------------------------------------------------------------
(* Hostnames.                                                              *)

Holds(t, part) == \E i \in DOMAIN t : t[i] = part
Within(s, t) == \E i \in 0..(Len(t) - Len(s)) : SubSeq(t, i + 1, i + Len(s)) = s

render(t, values) ==
    FlattenSeq([i \in DOMAIN t |-> IF t[i] \in DOMAIN values THEN values[t[i]] ELSE <<t[i]>>])

Index(s, part) == SelectInSeq(s, LAMBDA c : c = part)
LastIndex(s, part) == SelectLastInSeq(s, LAMBDA c : c = part)

(* strings.Cut at the first dot.                                           *)
Label(s) ==
    LET dot == Index(s, ".")
    IN IF dot = 0 THEN s ELSE SubSeq(s, 1, dot - 1)
Domain(s) == SubSeq(s, Len(Label(s)) + 2, Len(s))

(* Mutant: the name of the branch is left as it is.                        *)
asItIs(branchName, label) == branchName

(* Shortened by as much as the label is too long.                          *)
shortened(branchName, label) ==
    LET rest == Len(branchName) - (Len(label) - MaxLength)
    IN IF Len(label) > MaxLength /\ Within(branchName, label)
       THEN UpTo(SubSeq(branchName, 1, IF rest > 0 THEN rest ELSE 0), Character \ {"-"})
       ELSE branchName

rendered(t, values) ==
    render(t, IF Holds(t, "RandomID")
              THEN [values EXCEPT !.BranchName = shortened(@, Label(render(t, values)))]
              ELSE values)

IsDNS1123Subdomain(s) ==
    /\ s # <<>> /\ Len(s) <= MaxHost
    /\ s[1] \in Alphanumeric /\ Last(s) \in Alphanumeric
    /\ \A i \in DOMAIN s :
          /\ s[i] \in Alphanumeric \cup {"-", "."}
          /\ s[i] = "." => {s[i - 1], s[i + 1]} \subseteq Alphanumeric

(* Mutant: a label that is too long is cut, whatever is in it.             *)
cutLabel(t, label) ==
    IF Len(label) <= MaxLength THEN label ELSE normalize(SubSeq(label, 1, MaxLength))

(* Without a random ID the label is cut.                                   *)
fit(t, label) ==
    IF Len(label) <= MaxLength THEN label
    ELSE IF Holds(t, "RandomID") THEN NoName
    ELSE normalize(SubSeq(label, 1, MaxLength))

validHost(label, domain) ==
    IF label # NoName /\ domain # <<>> /\ IsDNS1123Subdomain(label \o <<".">> \o domain)
    THEN label \o <<".">> \o domain ELSE NoName

splitHost(t, s) ==
    IF Holds(s, "Misspelled") THEN NoName ELSE validHost(fit(t, Label(s)), Domain(s))

valuesOf(d, b, id) ==
    [BranchName |-> normalize(b), ReviewAppConfig |-> normalize(App),
     DeploymentName |-> normalize(d), RandomID |-> id]

(* id is <<>> when the PullRequest has no UID yet.                         *)
GetHostnameFromTemplate(t, d, b, id) ==
    IF \/ ~Holds(t, "RandomID") /\ ~Holds(t, "BranchName")
       \/ Holds(t, "RandomID") /\ id = <<>>
    THEN NoName
    ELSE splitHost(t, rendered(t, valuesOf(d, b, id)))

-----------------------------------------------------------------------------
(* Images.                                                                 *)

(* Mutant: the tag begins at the first colon.                              *)
beforeColon(i) == LET colon == Index(i, ":")
                  IN IF colon = 0 THEN i ELSE SubSeq(i, 1, colon - 1)

imageRepository(i) ==
    LET at == Index(i, "@")
        repo == IF at = 0 THEN i ELSE SubSeq(i, 1, at - 1)
        colon == LastIndex(repo, ":")
    IN IF colon > LastIndex(repo, "/") THEN SubSeq(repo, 1, colon - 1)
       ELSE repo

IsSameImageRepo(i, j) == imageRepository(i) = imageRepository(j)

(* What a reference is by the grammar of image references: a colon of the  *)
(* repository is that of a port, which a slash follows.                    *)
Reference(i) == i.repository \o i.tag \o i.digest

ASSUME ImageAssumption ==
    \A i \in Image :
        /\ {i.repository, i.tag, i.digest} \subseteq Seq(STRING)
        /\ ~Holds(i.repository, "@") /\ ~Holds(i.tag, "@") /\ ~Holds(i.tag, "/")
        /\ \A k \in DOMAIN i.repository : i.repository[k] = ":" =>
              \E l \in DOMAIN i.repository : l > k /\ i.repository[l] = "/"
        /\ \A k \in DOMAIN i.tag : i.tag[k] = ":" <=> k = 1
        /\ i.digest # <<>> => i.digest[1] = "@"

-----------------------------------------------------------------------------
Init ==
    /\ branch = <<>>
    /\ deployment \in Deployments

(* Every branch name up to MaxBranch.                                      *)
Next ==
    /\ Len(branch) < MaxBranch
    /\ \E c \in BranchCharacter : branch' = Append(branch, c)
    /\ UNCHANGED deployment

Spec == Init /\ [][Next]_vars

Branches == BoundedSeq(BranchCharacter, MaxBranch)

-----------------------------------------------------------------------------
(* Properties.                                                             *)

TypeOK ==
    /\ branch \in Seq(BranchCharacter) /\ Len(branch) <= MaxBranch
    /\ deployment \in Deployments /\ image \in Image
    /\ {GetPullRequestName(branch), GetDeploymentName(branch, deployment.name)} \subseteq Seq(Alphanumeric \cup {"-"})

IsLabel(s) ==
    /\ Len(s) <= MaxLength
    /\ s[1] \in Letter /\ Last(s) \in Alphanumeric
    /\ \A i \in DOMAIN s : s[i] \in Alphanumeric \cup {"-"}

(* Every branch has names that Kubernetes allows for Services, Deployments *)
(* and labels, if the ReviewAppConfig has a letter in its name; the label  *)
(* of the branch itself may be empty (normalize).                          *)
ValidNames ==
    /\ IsLabel(GetPullRequestName(branch)) /\ IsLabel(GetDeploymentName(branch, deployment.name))
    /\ normalize(branch) = <<>> \/ IsLabel(normalize(branch))

AllNames ==
    {[pullRequest |-> GetPullRequestName(b), name |-> d, deployment |-> GetDeploymentName(b, d)] :
        b \in Branches, d \in DeploymentNames}

(* Branches that share the name of their PullRequest share the names of    *)
(* their Deployments, so that none of these is ever of an older branch of  *)
(* a PullRequest that was taken over (checkNameConflict).                  *)
SameNames ==
    \A other \in AllNames :
        other.pullRequest = GetPullRequestName(branch) /\ other.name = deployment.name
        => other.deployment = GetDeploymentName(branch, deployment.name)

(* A hostname is valid, and has the random ID, and only the branch is      *)
(* shortened for it (GetHostnameFromTemplate).                             *)
HasRandomID ==
    \A id \in RandomIDs \cup {<<>>} :
        LET host == GetHostnameFromTemplate(template, deployment.name, branch, id)
        IN host # NoName =>
              /\ IsDNS1123Subdomain(host) /\ Len(Label(host)) <= MaxLength
              /\ Holds(template, "RandomID") => id # <<>> /\ Within(id, host)

(* The branch is shortened by all of the excess wherever it is, and of the  *)
(* domain nothing is cut.                                                  *)
HasRoom(t, d, b, id) ==
    /\ Holds(t, "RandomID") =>
          \A i, j \in DOMAIN t : t[i] = "BranchName" /\ t[j] = "BranchName" => i = j
    /\ MaxLength + 1 + Len(Domain(rendered(t, valuesOf(d, b, id)))) <= MaxHost

(* No branch is too long for a label: it has a hostname if a branch of a   *)
(* single letter has one (GetHostnameFromTemplate).                        *)
LongBranches ==
    \A id \in RandomIDs, c \in Letter :
        /\ GetHostnameFromTemplate(template, deployment.name, <<c>>, id) # NoName
        /\ normalize(branch) # <<>> /\ HasRoom(template, deployment.name, branch, id)
        => GetHostnameFromTemplate(template, deployment.name, branch, id) # NoName

(* Pull requests with different random IDs never have the same hostname,   *)
(* whatever their branches (GetHostnameFromTemplate).                      *)
DistinctHosts ==
    Holds(template, "RandomID") =>
        \A x, y \in RandomIDs : \A b \in OtherBranches :
            LET host == GetHostnameFromTemplate(template, deployment.name, branch, x)
            IN x # y /\ host # NoName => host # GetHostnameFromTemplate(template, deployment.name, b, y)

(* The forwarder routes "traffic to the correct deployment": no two of a   *)
(* review app share the labels that their Services select pods with.       *)
SelectsItsPods ==
    \A d \in DeploymentNames \ {deployment.name} :
        GetSelectorLabels(branch, d) # GetSelectorLabels(branch, deployment.name)

(* Images are of the same repository exactly when they differ in their tag *)
(* and digest only (IsSameImageRepo).                                      *)
SameRepository ==
    \A i \in Image :
        IsSameImageRepo(Reference(i), Reference(image)) <=> i.repository = image.repository
=============================================================================
