-------------------------- MODULE MCArchifyDelivery --------------------------
(***************************************************************************)
(* Small instances of ArchifyDelivery for TLC.                             *)
(***************************************************************************)
EXTENDS ArchifyDelivery, TLC

Installed(above) == [file |-> "executable", above |-> above]
Pinned == Installed(<<"pinned">>)
\* The version two directories up, behind files that name none.
PinnedAbove == Installed(<<"malformed", "versionless", "pinned">>)
\* Another version nearer than the pinned one.
Shadowed == Installed(<<"none", "other", "pinned">>)
\* The version is named beyond the search depth.
TooFar == Installed(<<"none", "none", "none", "other">>)
Missing == [file |-> "missing", above |-> <<>>]

AllRuntimes == {Pinned, PinnedAbove, Shadowed, TooFar, Missing}
GoodRequest == [type |-> "known", name |-> "relative_html", spec |-> TRUE]
OneRequest == {GoodRequest}
AllRequests == {GoodRequest, [GoodRequest EXCEPT !.type = "unknown"],
                [GoodRequest EXCEPT !.name = "dotdot"], [GoodRequest EXCEPT !.spec = FALSE]}

OneWalk == {<<"directory", "missing">>}

SomeRuntimes == {Pinned, TooFar, Shadowed, Missing}
SomeWalks == OneWalk \cup {<<"directory", "link_outside">>, <<"file", "missing">>}
=============================================================================
