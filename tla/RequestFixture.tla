--------------------------- MODULE RequestFixture ---------------------------
(***************************************************************************)
(* apiAnalysis/tool/request_fixture.py: the business inputs a tester saves *)
(* for one endpoint and account.  The fixture document points at one of    *)
(* its immutable revisions and carries a copy of its payload; an event is  *)
(* appended per change.  Each call reads the document, may insert a        *)
(* revision, saves the document and appends the event, and other calls run *)
(* between these steps.  save() of a loaded document writes only the       *)
(* fields that differ from what was read.                                  *)
(***************************************************************************)
EXTENDS Integers, Sequences, FiniteSets, SequencesExt

CONSTANTS
    FixtureCalls,     \* callers that run at once
    FixtureValues,    \* values of one part of a payload
    MaxFixtureCalls,  \* bound on the calls of a behaviour
    NoFixture         \* the document does not exist

ASSUME FixtureAssumption ==
    /\ MaxFixtureCalls \in Nat
    /\ NoFixture \notin [lifecycle : {"active", "inactive", "archived"}, active : BOOLEAN, rev : Nat,
                        query : FixtureValues, body : FixtureValues]

VARIABLES
    fixture,     \* ProjectRequestFixture of one (project, env, path, profile, name)
    revisions,   \* ProjectRequestFixtureRevision in the order of revision_no
    events,      \* ProjectRequestFixtureEvent: the set of those written
    fixtureCall, \* what each caller is doing
    fixtureUsed, \* calls so far
    staleWrite,  \* a document was saved over one changed since it was read
    sealed       \* the document archived at a moment when nobody had it open

fixtureVars == <<fixture, revisions, events, fixtureCall, fixtureUsed, staleWrite, sealed>>

\* query stands for the query, header and path mappings; body for the body and note.
FixturePayloads == [query : FixtureValues, body : FixtureValues]
FixturePayload(doc) == [query |-> doc.query, body |-> doc.body]

FixtureDoc(lifecycle, rev, payload) ==
    [lifecycle |-> lifecycle, active |-> lifecycle = "active", rev |-> rev,
     query |-> payload.query, body |-> payload.body]

\* get_request_fixture: what a request of the endpoint is filled from.
ServedFixture == IF fixture # NoFixture /\ fixture.active THEN fixture ELSE NoFixture

FixtureState == IF fixture = NoFixture THEN "absent" ELSE fixture.lifecycle

FixtureIdle == [pc |-> "idle"]

\* save() of a document read as old and changed to new: a document that did not
\* exist is inserted, otherwise the changed fields are set.
SavedFixture(old, new, current) ==
    IF old = NoFixture THEN new
    ELSE [f \in DOMAIN new |-> IF new[f] # old[f] THEN new[f] ELSE current[f]]

\* The document counts as sealed when it is archived and no caller is left that
\* read it before.
SealFixture == sealed' = IF sealed = NoFixture /\ fixture' # NoFixture /\ fixture'.lifecycle = "archived"
                     /\ \A c \in FixtureCalls : fixtureCall'[c].pc \notin {"insert", "write"}
                  THEN fixture' ELSE sealed

FixtureBegin(c, call) ==
    /\ fixtureCall[c].pc = "idle" /\ fixtureUsed < MaxFixtureCalls
    /\ fixtureUsed' = fixtureUsed + 1
    /\ fixtureCall' = [fixtureCall EXCEPT ![c] = call]
    /\ UNCHANGED <<fixture, revisions, events, staleWrite>>
    /\ SealFixture

-----------------------------------------------------------------------------
(* The operations.  A call that raises or has nothing to do changes        *)
(* nothing and is not a step.                                              *)

\* save_request_fixture up to the revision.  An archived fixture is refused.
SaveFixture(c, payload) ==
    /\ FixtureState # "archived"
    /\ LET known == {n \in DOMAIN revisions : revisions[n] = payload}
           n     == IF known = {} THEN Len(revisions) + 1 ELSE CHOOSE k \in known : TRUE
           kind  == CASE FixtureState = "absent" -> "created"
                      [] FixtureState \in {"inactive", "archived"} -> "activated"
                      [] OTHER -> IF fixture.rev = n THEN "" ELSE IF known = {} THEN "revised" ELSE "activated"
       IN  FixtureBegin(c, [pc |-> IF known = {} THEN "insert" ELSE "write", read |-> fixture,
                     new |-> FixtureDoc("active", n, payload), kind |-> kind])

\* revision.save(force_insert=True): number and hash are unique, a second
\* insert of either raises.
InsertRevision(c) ==
    LET call == fixtureCall[c] IN
    /\ call.pc = "insert"
    /\ IF call.new.rev = Len(revisions) + 1 /\ ~Contains(revisions, FixturePayload(call.new))
       THEN /\ revisions' = Append(revisions, FixturePayload(call.new))
            /\ fixtureCall' = [fixtureCall EXCEPT ![c].pc = "write"]
       ELSE /\ UNCHANGED revisions
            /\ fixtureCall' = [fixtureCall EXCEPT ![c] = FixtureIdle]
    /\ UNCHANGED <<fixture, events, fixtureUsed, staleWrite>>
    /\ SealFixture

\* Mutant: an archived fixture can be activated.
ActivateArchived(c, n) ==
    /\ fixture # NoFixture
    /\ ~(fixture.lifecycle = "active" /\ fixture.rev = n)
    /\ FixtureBegin(c, [pc |-> "write", read |-> fixture, kind |-> "activated",
                 new |-> FixtureDoc("active", n, revisions[n])])

\* activate_fixture_revision: the current revision of an active fixture is left
\* alone.
ActivateRevision(c, n) ==
    /\ FixtureState \in {"active", "inactive"}
    /\ ~(fixture.lifecycle = "active" /\ fixture.rev = n)
    /\ FixtureBegin(c, [pc |-> "write", read |-> fixture, kind |-> "activated",
                 new |-> FixtureDoc("active", n, revisions[n])])

DeactivateFixture(c) ==
    /\ FixtureState = "active"
    /\ FixtureBegin(c, [pc |-> "write", read |-> fixture, kind |-> "deactivated",
                 new |-> [fixture EXCEPT !.lifecycle = "inactive", !.active = FALSE]])

ArchiveFixture(c) ==
    /\ FixtureState \in {"active", "inactive"}
    /\ FixtureBegin(c, [pc |-> "write", read |-> fixture, kind |-> "archived",
                 new |-> [fixture EXCEPT !.lifecycle = "archived", !.active = FALSE]])

\* fixture.save(), the last read of which may be old by now.  A second insert of
\* the document raises.
WriteFixture(c) ==
    LET call == fixtureCall[c] IN
    /\ call.pc = "write"
    /\ IF call.read = NoFixture /\ fixture # NoFixture
       THEN /\ fixtureCall' = [fixtureCall EXCEPT ![c] = FixtureIdle]
            /\ UNCHANGED <<fixture, staleWrite>>
       ELSE /\ fixture' = SavedFixture(call.read, call.new, fixture)
            /\ staleWrite' = (staleWrite \/ fixture # call.read)
            /\ fixtureCall' = [fixtureCall EXCEPT
                   ![c] = IF call.kind = "" THEN FixtureIdle ELSE [@ EXCEPT !.pc = "event"]]
    /\ UNCHANGED <<revisions, events, fixtureUsed>>
    /\ SealFixture

\* _append_fixture_event.
AppendEvent(c) ==
    LET call == fixtureCall[c] IN
    /\ call.pc = "event"
    /\ events' = events \cup {[kind |-> call.kind, rev |-> call.new.rev,
                               from |-> IF call.read = NoFixture THEN "" ELSE call.read.lifecycle,
                               to |-> call.new.lifecycle]}
    /\ fixtureCall' = [fixtureCall EXCEPT ![c] = FixtureIdle]
    /\ UNCHANGED <<fixture, revisions, fixtureUsed, staleWrite>>
    /\ SealFixture

\* The process of the call is gone between two of its writes.
FixtureCallDies(c) ==
    /\ fixtureCall[c].pc # "idle"
    /\ fixtureCall' = [fixtureCall EXCEPT ![c] = FixtureIdle]
    /\ UNCHANGED <<fixture, revisions, events, fixtureUsed, staleWrite>>
    /\ SealFixture

FixtureInit ==
    /\ fixture = NoFixture /\ revisions = << >> /\ events = {}
    /\ fixtureCall = [c \in FixtureCalls |-> FixtureIdle]
    /\ fixtureUsed = 0 /\ staleWrite = FALSE /\ sealed = NoFixture

FixtureNext ==
    \E c \in FixtureCalls :
       \/ \E p \in FixturePayloads : SaveFixture(c, p)
       \/ \E n \in DOMAIN revisions : ActivateRevision(c, n)
       \/ DeactivateFixture(c)
       \/ ArchiveFixture(c)
       \/ InsertRevision(c)
       \/ WriteFixture(c)
       \/ AppendEvent(c)
       \/ FixtureCallDies(c)

FixtureSpec == FixtureInit /\ [][FixtureNext]_fixtureVars

-----------------------------------------------------------------------------
(* Properties.                                                             *)

\* Once a fixture is archived and no caller holds an older copy of it, no later
\* call changes it or makes it served again.
ArchiveHolds == sealed # NoFixture => fixture = sealed

\* Stated by the code ("archived fixture is immutable; create a new named
\* fixture"): what was archived is never served.  A call that read the document
\* before the archive brings it back.
ArchivedNeverServed ==
    [][FixtureState = "archived"
          => ServedFixture' = NoFixture]_fixtureVars

\* A fixture never names a revision that is not stored, and unless two calls
\* overlapped on the document it carries the payload of the revision it names
\* and is served exactly when it is active: save_request_fixture and
\* activate_fixture_revision copy revision, payload and lifecycle together.
FixtureCarriesRevision ==
    fixture # NoFixture =>
       /\ fixture.rev \in DOMAIN revisions
       /\ ~staleWrite => /\ FixturePayload(fixture) = revisions[fixture.rev]
                         /\ fixture.active <=> fixture.lifecycle = "active"

\* What a fixture serves is a stored revision, and an archived one stays out,
\* whatever order saves, activations and archivings are taken in.
FixtureConsistent == FixtureCarriesRevision /\ ArchiveHolds
=============================================================================
