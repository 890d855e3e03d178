----------------------------- MODULE MCArchives -----------------------------
(***************************************************************************)
(* Instance of StoredFiles, Recovery and Portability for TLC.  Backups are *)
(* made while files come and go; support bundles, what is proved about     *)
(* backups, with the files at rest, and bundles that are exchanged, are    *)
(* each explored apart from that.                                          *)
(***************************************************************************)
EXTENDS Recovery, Portability, TLC

VARIABLE part

vars == <<part, recoveryVars, storedVars, portabilityVars>>

Lax == [enabled |-> TRUE, encrypt |-> FALSE, trust |-> FALSE, drill |-> FALSE]
TwoPolicies == {Lax, [Lax EXCEPT !.trust = TRUE]}

Bare == [t \in Tables |-> <<>>]

\* Two templates of one name, a chat without an id, and one of everything else.
Full ==
    [Bare EXCEPT
        !.media = <<[content |-> 1, there |-> TRUE]>>,
        !.connections = <<[name |-> <<"a">>]>>,
        !.destinations = <<[on |-> 1, chat |-> 1], [on |-> 1, chat |-> None]>>,
        !.templates = <<[name |-> <<"a">>, body |-> 1, medium |-> 1],
                        [name |-> <<"a">>, body |-> 2, medium |-> None]>>,
        !.campaigns = <<[name |-> <<"a">>, on |-> 1, first |-> 1, second |-> 2, to |-> {1, 2}]>>,
        !.flows = <<[name |-> <<"a">>, content |-> 1]>>,
        !.providers = <<[name |-> <<"a">>, content |-> 1]>>,
        !.policies = <<[name |-> <<"a">>, on |-> 1, flow |-> 1, provider |-> 1]>>,
        !.knowledge = <<[content |-> 1]>>,
        !.integrations = <<[name |-> <<"a">>]>>,
        !.blackouts = <<[scope |-> "destinations", at |-> 1],
                        [scope |-> "organization", at |-> None]>>]

\* The same names and the same chat, with other texts and media.
Other ==
    [Bare EXCEPT
        !.media = <<[content |-> 2, there |-> TRUE]>>,
        !.connections = <<[name |-> <<"b">>], [name |-> <<"a">>]>>,
        !.destinations = <<[on |-> 1, chat |-> 1], [on |-> 2, chat |-> 1]>>,
        !.templates = <<[name |-> <<"a">>, body |-> 3, medium |-> 1]>>,
        !.campaigns = <<[name |-> <<"b">>, on |-> 2, first |-> 1, second |-> None, to |-> {2}]>>,
        !.flows = <<[name |-> <<"a">>, content |-> 2]>>,
        !.policies = <<[name |-> <<"b">>, on |-> 2, flow |-> 1, provider |-> None]>>,
        !.blackouts = <<[scope |-> "connections", at |-> 1]>>]

ThreeSeeds == {Bare, Full, Other}

Symmetry == UNION {Permutations(s) : s \in {Callers, Media, Backups}}

Init ==
    /\ StoredInit /\ RecoveryInit /\ PortabilityInit
    /\ part \in {"files", "support", "evidence", "portability"}
    /\ part # "evidence" => recoveryPolicy = Lax /\ signingKey = "TRUSTED"
    /\ part # "portability" => org = [o \in Orgs |-> Bare]

Files ==
    \/ \E c \in Callers : MediaCall(c) \/ BundleCall(c) \/ GiveUp(c)
    \/ \E t \in Templates : LetGo(t)

Support ==
    \/ \E c \in Callers : SupportCall(c) \/ GiveUp(c)
    \/ \E s \in Supports : Age(s)

\* One backup
Backup ==
    \E t \in Tools :
        \/ Dump(t) \/ Copy(t)
        \/ /\ \A b \in Backups : ~disk[b].plain
           /\ \E b \in Backups : BeginBackup(t, b, FALSE)

\* At most one backup an hour
Present(b) ==
    \/ disk[b].plain \/ disk[b].archive # "none"
    \/ \E t \in Tools : Using(t, {"begun", "dumped"}) /\ tool[t].backup = b
Hourly ==
    \A b, c \in Backups :
        b # c /\ Present(b) /\ Present(c) => disk[b].made # disk[c].made

Next ==
    \/ part = "files" /\ Files /\ UNCHANGED <<part, recoveryVars, portabilityVars>>
    \/ part = "files" /\ Backup /\ UNCHANGED <<part, portabilityVars>>
    \/ part = "support" /\ Support /\ UNCHANGED <<part, recoveryVars, portabilityVars>>
    \/ part = "evidence" /\ RecoveryNext /\ Hourly' /\ UNCHANGED <<part, portabilityVars>>
    \/ part = "portability" /\ PortabilityNext /\ UNCHANGED <<part, recoveryVars, storedVars>>

Spec == Init /\ [][Next]_vars
=============================================================================
