------------------------------- MODULE MCNames -------------------------------
(***************************************************************************)
(* Names of at most five characters.  The name of a PullRequest has room   *)
(* for three of a branch, and that of a Deployment for one.                *)
(***************************************************************************)
EXTENDS Names

Letters == {"a", "b"}
Digits == {"1"}
Uppers == {"A"}
ToLower == [c \in {"A"} |-> "a"]
Others == {"#"}
BranchCharacters == {"a", "1", "/", "A", "#"}
ShortBranches == BoundedSeq({"a", "1", "/"}, 2)
AppName == <<"a">>
IDs == {<<"1", "a">>, <<"a", "1">>}

HostTemplates ==
    {<<"BranchName", ".", "b">>,
     <<"RandomID", ".", "b">>,
     <<"BranchName", "-", "RandomID", ".", "b">>,
     <<"DeploymentName", "-", "BranchName", "-", "RandomID", ".", "b">>,
     <<"ReviewAppConfig", "-", "BranchName", ".", "b">>,
     <<"RandomID", ".", "BranchName", ".", "b">>,
     <<"a", "a", "a", "a", "a", "RandomID", ".", "b">>,
     <<"Misspelled", "BranchName", ".", "b">>,
     <<"DeploymentName", ".", "b">>,
     <<"BranchName", "BranchName", "RandomID", ".", "b">>,
     <<"BranchName">>}

Repository ==
    {<<"app">>, <<"team", "/", "app">>, <<"localhost", ":", "5000", "/", "app">>}
Tag == {<<>>, <<":", "v1">>, <<":", "v2">>}
Digest == {<<>>, <<"@", "sha256", ":", "1">>}
Images == [repository: Repository, tag: Tag, digest: Digest]

AnImage == [repository |-> <<"team", "/", "app">>, tag |-> <<":", "v1">>, digest |-> <<>>]

(* Every template, and every image.                                        *)
AllDeployments ==
    [name: {<<"b">>}, template: HostTemplates, image: {AnImage}]
    \cup [name: {<<"b">>}, template: {<<"BranchName", ".", "b">>}, image: Images]

WebAndApi == [name: {<<"b">>, <<"a">>}, template: {<<"BranchName", ".", "b">>}, image: {AnImage}]
=============================================================================
