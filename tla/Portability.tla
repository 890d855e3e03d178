----------------------------- MODULE Portability -----------------------------
(***************************************************************************)
(* What configuration bundles carry from one organization to another       *)
(* (app/services/config_bundles.py): an export writes the tables of an     *)
(* organization with its own ids as references; an import adds them to     *)
(* another one, finds or renames what has a name that is taken, and makes  *)
(* the references lead to the rows of that organization.                   *)
(*                                                                         *)
(* A table is a sequence of rows, a row's id its place in it.  Of the      *)
(* columns there is what references and comparisons need; what is imported *)
(* is off, a draft and unconfirmed throughout.  The zip, its checksums and *)
(* signatures are taken to be in order, and what becomes of the stored     *)
(* files is in StoredFiles.                                                *)
(***************************************************************************)
EXTENDS Naturals, SequencesExt, FiniteSetsExt

CONSTANTS
    Orgs,
    Seeds,     \* what an organization may have to begin with
    Long,      \* names that fill their column: a suffix is cut off again
    MaxCopies, \* 999: suffixes that are tried
    MaxRows    \* bound: blackouts of one organization, which every import adds to

VARIABLES
    org,      \* the tables of each organization
    archive   \* the last export, or <<>>

portabilityVars == <<org, archive>>

None == 0     \* no reference, no chat id

Tables ==
    {"media", "connections", "destinations", "templates", "campaigns", "flows", "providers",
     "policies", "knowledge", "integrations", "blackouts"}

PortabilityInit ==
    /\ org \in [Orgs -> Seeds]
    /\ archive = <<>>

-----------------------------------------------------------------------------
(***************************************************************************)
(* Export.                                                                 *)
(***************************************************************************)

\* A medium whose file is not there goes without it.
Document(db, withMedia) ==
    [db EXCEPT !.media = [i \in DOMAIN @ |-> [@[i] EXCEPT !.there = @ /\ withMedia]]]

ExportBundle(o, withMedia) ==
    /\ archive' = <<Document(org[o], withMedia)>>
    /\ UNCHANGED org

\* The file of a medium is lost.
LoseFile(o, i) ==
    /\ i \in DOMAIN org[o].media /\ org[o].media[i].there
    /\ org' = [org EXCEPT ![o].media[i].there = FALSE]
    /\ UNCHANGED archive

-----------------------------------------------------------------------------
(***************************************************************************)
(* Import.  `at' is how far it has come: the tables, and for each of them  *)
(* where the references of the archive lead by now.                        *)
(***************************************************************************)

Start(db) == [db |-> db, map |-> [t \in Tables |-> <<>>]]
Led(at, t, ref) == IF ref \in DOMAIN at.map[t] THEN at.map[t][ref] ELSE None

Reuse(at, t, ref, id) == [at EXCEPT !.map[t] = (ref :> id) @@ @]
Create(at, t, ref, row) ==
    Reuse([at EXCEPT !.db[t] = Append(@, row)], t, ref, Len(at.db[t]) + 1)

\* Rows of a table that look like this one; the query does not say which of them it wants.
Like(at, t, Same(_)) == {i \in DOMAIN at.db[t] : Same(at.db[t][i])}
Found(ids) == Min(ids)

\* A candidate has at most 180 characters, what the name of a campaign has room for; in
\* the other tables it is cut when it is stored.
Suffixed(t, name, k) ==
    IF t = "campaigns" /\ Head(name) \in Long THEN name ELSE Append(name, k)
Stored(name) == IF name # <<>> /\ Head(name) \in Long THEN <<Head(name)>> ELSE name
Refused == <<>>

\* _unique_name
UniqueName(rows, t, name) ==
    LET taken == {rows[i].name : i \in DOMAIN rows}
        free == {k \in 2..MaxCopies : Suffixed(t, name, k) \notin taken}
    IN  IF name \notin taken THEN name
        ELSE IF free = {} THEN Refused ELSE Suffixed(t, name, Min(free))

\* `rows' is what the query finds: the session does not flush by itself.
NamedAmong(at, rows, t, ref, row, mode) ==
    LET same == {i \in DOMAIN rows : rows[i].name = row.name}
    IN  IF mode = "skip" /\ same # {} THEN Reuse(at, t, ref, Found(same))
        ELSE Create(at, t, ref, [row EXCEPT !.name = Stored(UniqueName(rows, t, @))])

Named(at, t, ref, row, mode) == NamedAmong(at, at.db[t], t, ref, row, mode)

AddMedia(at, doc) ==
    LET Add(so, i) ==
          LET same == Like(so, "media", LAMBDA m : m.content = doc.media[i].content)
          IN  IF same # {} THEN Reuse(so, "media", i, Found(same))
              ELSE IF doc.media[i].there THEN Create(so, "media", i, doc.media[i])
              ELSE so
    IN  FoldLeftDomain(Add, at, doc.media)

AddConnections(at, doc, mode) ==
    LET Add(so, i) == Named(so, "connections", i, doc.connections[i], mode)
    IN  FoldLeftDomain(Add, at, doc.connections)

\* Mutant: the chat is looked for on every connection.
SameChat(one, other) == one.chat = other.chat /\ one.chat # None

\* A chat without an id is never found again.
SameDestination(one, other) == one = other /\ one.chat # None

AddDestinations(at, doc) ==
    LET Add(so, i) ==
          LET row == [doc.destinations[i] EXCEPT !.on = Led(so, "connections", @)]
              same == Like(so, "destinations", LAMBDA d : SameDestination(row, d))
          IN  IF row.on = None THEN so
              ELSE IF same # {} THEN Reuse(so, "destinations", i, Found(same))
              ELSE Create(so, "destinations", i, row)
    IN  FoldLeftDomain(Add, at, doc.destinations)

AddTemplates(at, doc, mode) ==
    LET Add(so, i) ==
          Named(so, "templates", i,
                [doc.templates[i] EXCEPT !.medium = Led(so, "media", @)], mode)
    IN  FoldLeftDomain(Add, at, doc.templates)

AddCampaigns(at, doc, mode) ==
    LET Add(so, i) ==
          LET old == doc.campaigns[i]
              row == [old EXCEPT !.on = Led(so, "connections", @),
                                 !.first = Led(so, "templates", @),
                                 !.second = Led(so, "templates", @),
                                 !.to = {Led(so, "destinations", d) : d \in @} \ {None}]
          IN  IF None \in {row.on, row.first} THEN so ELSE Named(so, "campaigns", i, row, mode)
    IN  FoldLeftDomain(Add, at, doc.campaigns)

AddFlows(at, doc, mode) ==
    LET Add(so, i) == Named(so, "flows", i, doc.flows[i], mode)
    IN  FoldLeftDomain(Add, at, doc.flows)

AddProviders(at, doc, mode) ==
    LET Add(so, i) == Named(so, "providers", i, doc.providers[i], mode)
    IN  FoldLeftDomain(Add, at, doc.providers)

\* Policies and integrations are added without a flush: they do not see each other.
AddPolicies(at, doc, mode) ==
    LET Add(so, i) ==
          LET row == [doc.policies[i] EXCEPT !.on = Led(so, "connections", @),
                                             !.flow = Led(so, "flows", @),
                                             !.provider = Led(so, "providers", @)]
          IN  IF row.on = None THEN so
              ELSE NamedAmong(so, at.db.policies, "policies", i, row, mode)
    IN  FoldLeftDomain(Add, at, doc.policies)

\* Articles have no name: every import adds them.
AddKnowledge(at, doc) ==
    LET Add(so, i) == Create(so, "knowledge", i, doc.knowledge[i])
    IN  FoldLeftDomain(Add, at, doc.knowledge)

AddIntegrations(at, doc, mode) ==
    LET Add(so, i) == NamedAmong(so, at.db.integrations, "integrations", i,
                                 doc.integrations[i], mode)
    IN  FoldLeftDomain(Add, at, doc.integrations)

\* One for the organization leads nowhere.
AddBlackouts(at, doc) ==
    LET Add(so, i) ==
          LET old == doc.blackouts[i]
              row == [old EXCEPT !.at = Led(so, old.scope, @)]
          IN  IF old.scope = "organization" THEN Create(so, "blackouts", i, old)
              ELSE IF row.at = None THEN so ELSE Create(so, "blackouts", i, row)
    IN  FoldLeftDomain(Add, at, doc.blackouts)

\* apply_bundle, in its order
Applied(db, doc, mode) ==
    LET one == AddDestinations(AddConnections(AddMedia(Start(db), doc), doc, mode), doc)
        two == AddCampaigns(AddTemplates(one, doc, mode), doc, mode)
        three == AddPolicies(AddProviders(AddFlows(two, doc, mode), doc, mode), doc, mode)
    IN  AddBlackouts(AddIntegrations(AddKnowledge(three, doc), doc, mode), doc).db

\* Whatever refuses one row undoes them all: no suffix was left, or a name that was found
\* free is not, after all, once it is cut or another row of the import has it.
Acceptable(db) ==
    /\ \A i \in DOMAIN db.campaigns : db.campaigns[i].name # Refused
    /\ \A t \in {"connections", "flows", "providers", "policies", "integrations"} :
          \A i, j \in DOMAIN db[t] : db[t][i].name = db[t][j].name => i = j

ImportBundle(o, mode) ==
    /\ archive # <<>> /\ Len(org[o].blackouts) < MaxRows
    /\ LET after == Applied(org[o], archive[1], mode) IN
        /\ Acceptable(after)
        /\ org' = [org EXCEPT ![o] = after]
    /\ UNCHANGED archive

PortabilityNext ==
    \E o \in Orgs :
        \/ \E withMedia \in BOOLEAN : ExportBundle(o, withMedia)
        \/ \E mode \in {"skip", "rename"} : ImportBundle(o, mode)
        \/ \E i \in 1..Len(org[o].media) : LoseFile(o, i)

-----------------------------------------------------------------------------
(***************************************************************************)
(* Properties.                                                             *)
(***************************************************************************)

MediumIn(db, t) == IF t.medium = None THEN None ELSE db.media[t.medium].content
TextIn(db, i) == IF i = None THEN <<>> ELSE <<db.templates[i].body, MediumIn(db, db.templates[i])>>

\* What a campaign would send, and whether it goes where its connection goes.
Sends(db, c) ==
    [first |-> TextIn(db, c.first), second |-> TextIn(db, c.second),
     chats |-> {<<db.destinations[d].chat, db.destinations[d].on = c.on>> : d \in c.to}]

\* What a policy answers with.
Answers(db, p) ==
    <<IF p.flow = None THEN None ELSE db.flows[p.flow].content,
      IF p.provider = None THEN None ELSE db.providers[p.provider].content>>

Added(old, new) == (Len(old) + 1)..Len(new)

\* Where a blackout holds.
Holds(db, b) ==
    <<b.scope, CASE b.scope = "organization" -> None
                 [] b.scope = "connections" -> Head(db.connections[b.at].name)
                 [] b.scope = "destinations" -> db.destinations[b.at].chat>>

\* An import that renames has a copy of every campaign, policy and blackout that is
\* what the original was by way of all its references, whatever the organization had
\* of the same names, chats and media (app/services/config_bundles.py:931).
CopyIsFaithful ==
    [][\A o \in Orgs :
          ImportBundle(o, "rename") /\ (\A i \in DOMAIN archive[1].media : archive[1].media[i].there) =>
            LET doc == archive[1]  old == org[o]  new == org'[o] IN
            /\ \A i \in DOMAIN doc.campaigns : \E j \in Added(old.campaigns, new.campaigns) :
                  Sends(new, new.campaigns[j]) = Sends(doc, doc.campaigns[i])
            /\ \A i \in DOMAIN doc.policies : \E j \in Added(old.policies, new.policies) :
                  Answers(new, new.policies[j]) = Answers(doc, doc.policies[i])
            /\ \A i \in DOMAIN doc.blackouts : \E j \in Added(old.blackouts, new.blackouts) :
                  Holds(new, new.blackouts[j]) = Holds(doc, doc.blackouts[i])
      ]_portabilityVars
=============================================================================
