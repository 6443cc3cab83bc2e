----------------------------- MODULE ThreadGate -----------------------------
(***************************************************************************)
(* thread-gate.js and its use in server.js: a client that keeps its        *)
(* conversation at the vendor sends only the tail and names the thread.    *)
(* Such a turn can be served by the account that holds the thread; any     *)
(* other is told to refuse it, so that the client resends the turn whole.  *)
(* A client that does not take the hint must not be refused for ever.      *)
(*                                                                         *)
(* Routing is not consulted: a turn may be given to any account.           *)
(***************************************************************************)
EXTENDS Sequences, Naturals, SequencesExt

CONSTANTS
    Sessions,             \* the conversations, each with its session header
    Claude,               \* the accounts that can hold a thread
    ThirdParty,           \* the accounts of other providers: they cannot
    MaxSessions,          \* MAX_SESSIONS
    MaxRefusals           \* MAX_CONSECUTIVE_REFUSALS

\* NO_SESSION_PREFIX keeps the keys of accounts apart from those of sessions.
ASSUME GateAssumption ==
    /\ MaxSessions \in Nat \ {0} /\ MaxRefusals \in Nat \ {0}
    /\ Claude \cap ThirdParty = {} /\ Sessions \cap (Claude \cup ThirdParty) = {}
    /\ "nobody" \notin Sessions \cup Claude \cup ThirdParty

VARIABLES
    owners,       \* ThreadOwners.map, the least recently used first
    holder,       \* history: the account that served the session's last threaded turn
    row,          \* history: refusals in a row
    last          \* history: the last continued turn, and what the histories said of it

gvars == <<owners, holder, row, last>>

Nobody == "nobody"
Keys == Sessions \cup Claude \cup ThirdParty

GateInit ==
    /\ owners = <<>>
    /\ holder = [s \in Sessions |-> Nobody]
    /\ row = [k \in Keys |-> 0]
    /\ last = [what |-> "none", claude |-> TRUE, held |-> FALSE, row |-> 0]

\* a turn without a session header is counted against the account it was given to
KeyOf(session, account) == IF session = Nobody THEN account ELSE session

Has(key) == \E i \in DOMAIN owners : owners[i].key = key
Place(key) == CHOOSE i \in DOMAIN owners : owners[i].key = key
Entry(key) == IF Has(key) THEN owners[Place(key)] ELSE [key |-> key, owner |-> Nobody, refusals |-> 0]

\* _touch, _set: to the end of the map; the oldest entry of a full one is dropped
Others(key) == IF Has(key) THEN RemoveAt(owners, Place(key)) ELSE owners
Put(entry) ==
    LET kept == Append(Others(entry.key), entry)
    IN  IF Len(kept) > MaxSessions THEN Tail(kept) ELSE kept

ShouldRefuse_AnyStreak(key, account) ==  \* (mutant: a provider is bounded like the others)
    /\ ~(Has(key) /\ Entry(key).owner = account)
    /\ Entry(key).refusals < MaxRefusals
\* shouldRefuse, of a turn that continues a thread
ShouldRefuse(key, account) ==
    \/ account \in ThirdParty
    \/ /\ ~(Has(key) /\ Entry(key).owner = account)
       /\ Entry(key).refusals < MaxRefusals

\* noteServed: the account holds the thread from here on, whatever comes of the
\* turn; without a header only the streak ends
Served(session, account) ==
    owners' = Put([key |-> KeyOf(session, account), refusals |-> 0,
                   owner |-> IF session = Nobody THEN Nobody ELSE account])

\* noteRefused; past the bound the count tells nothing more
Refused(session, account) ==
    LET key == KeyOf(session, account)
    IN  owners' = Put([Entry(key) EXCEPT !.refusals = IF @ < MaxRefusals THEN @ + 1 ELSE @])

\* what the histories keep of a turn: a holder that the full map forgot is gone
Remember(session, account, what) ==
    LET key == KeyOf(session, account)
        known == {owners'[i].key : i \in DOMAIN owners'}
    IN  /\ holder' = [s \in Sessions |->
                        IF s \notin known THEN Nobody
                        ELSE IF s = session /\ what # "refused" THEN account ELSE holder[s]]
        /\ row' = [row EXCEPT ![key] = IF what # "refused" THEN 0
                                       ELSE IF @ < MaxRefusals THEN @ + 1 ELSE @]
        /\ last' = [what |-> what, claude |-> account \in Claude, row |-> row[key],
                    held |-> session # Nobody /\ holder[session] = account]

\* the client opens a thread, sending the whole transcript
Create(session, account) ==
    /\ Served(session, account)
    /\ Remember(session, account, "created")

\* the client continues one: the turn is forwarded ...
Continue(session, account) ==
    /\ ~ShouldRefuse(KeyOf(session, account), account)
    /\ Served(session, account)
    /\ Remember(session, account, "continued")

\* ... or the client is told to resend it whole
Refuse(session, account) ==
    /\ ShouldRefuse(KeyOf(session, account), account)
    /\ Refused(session, account)
    /\ Remember(session, account, "refused")

GateNext ==
    \E session \in Sessions \cup {Nobody}, account \in Claude \cup ThirdParty :
        \/ Create(session, account)
        \/ Continue(session, account)
        \/ Refuse(session, account)

GateSpec == GateInit /\ [][GateNext]_gvars

(***************************************************************************)
(* Properties                                                              *)
(***************************************************************************)
GateTypeOK ==
    /\ owners \in Seq([key: Keys, owner: Claude \cup ThirdParty \cup {Nobody},
                       refusals: 0..MaxRefusals])
    /\ Len(owners) <= MaxSessions
    /\ holder \in [Sessions -> Claude \cup ThirdParty \cup {Nobody}]
    /\ row \in [Keys -> 0..MaxRefusals]
    /\ last.row \in 0..MaxRefusals

(* A turn that names a thread reaches only a Claude account, and one that  *)
(* holds the thread, unless the client has ignored the refusals one after  *)
(* the other; and the account that holds it is never told to refuse.       *)
ThreadIsHeld ==
    /\ last.what = "continued" => last.claude /\ (last.held \/ last.row = MaxRefusals)
    /\ last.what = "refused" => ~last.claude \/ ~last.held
=============================================================================
