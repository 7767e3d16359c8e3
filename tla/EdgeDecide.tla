----------------------------- MODULE EdgeDecide -----------------------------
(***************************************************************************)
(* What an agent meets at the edge, and when:                              *)
(*                                                                         *)
(*   routes/oauth.py    issue_token: a client of the served list gets a    *)
(*                      token for the scopes the list allows it            *)
(*   routes/decide.py   decide: the token, the policy asked for, the fail  *)
(*                      modes, the evaluation                              *)
(*   policy/stale.py    status, fail_mode_verdict                          *)
(*                                                                         *)
(* Both handlers run without an await.  Around them the cache is refreshed *)
(* (PolicyCache; a whole sync is one step here, as PolicySyncTurns shows   *)
(* it to be), the process restarts and time passes.  A revision is an      *)
(* answer of the gateway.  What a policy says is left open: evaluate may   *)
(* return any verdict (RuleEngine has it).  The signing key is taken to    *)
(* last, so that a token is valid until it expires (EdgeIdentity).  decide *)
(* leaves all of this as it is, but for the audit event it enqueues        *)
(* (TelemetrySender): it is an operator, the answers a request may get.    *)
(***************************************************************************)
EXTENDS PolicyCache, Sequences

CONSTANTS
    Clients, Scopes,
    Enforce,        \* the scope "govern:enforce"
    Listings,       \* the lists of clients the gateway may send
    MultiModes,     \* values multi_policy_enabled may take at a boot
    FailModes,      \* values policy_fail_mode may take at a boot
    TTL,            \* settings.oauth_token_ttl_seconds
    Threshold,      \* settings.policy_stale_threshold_seconds
    MaxAnswers,     \* bound: answers of the gateway
    MaxClock,       \* bound: time
    MaxTokens,      \* bound: tokens issued that differ
    MaxRestarts     \* bound: restarts

(* An entry of authorized_clients.                                         *)
Entry == [client : Clients, scopes : SUBSET Scopes]

ASSUME DecideAssumption ==
    /\ Enforce \in Scopes
    /\ Listings \subseteq SUBSET Entry
    /\ MultiModes \subseteq BOOLEAN
    /\ FailModes \subseteq {"open", "closed"}
    /\ TTL \in Nat \ {0} /\ Threshold \in Nat
    /\ MaxAnswers \in Nat /\ MaxClock \in Nat /\ MaxTokens \in Nat /\ MaxRestarts \in Nat

VARIABLES
    answers,    \* the answers received, as [at, plural, names, primary, listed]
    clock,
    multi,      \* settings.multi_policy_enabled of this process
    failMode,   \* settings.policy_fail_mode of this process
    tokens,     \* the tokens issued, as [client, scopes, exp]
    lastGrant,  \* history: when each client was last listed for Enforce
    restarts

settings == <<multi, failMode>>
vars == <<memory, disk, answers, clock, settings, tokens, lastGrant, restarts>>

Token == [client : Clients, scopes : SUBSET Scopes, exp : Nat]

Answer == [at : Nat, plural : BOOLEAN, names : SUBSET Names,
           primary : Names \cup {None}, listed : SUBSET Entry]

TypeOK ==
    /\ CacheTypeOK
    /\ answers \in Seq(Answer)
    /\ clock \in Nat
    /\ multi \in BOOLEAN /\ failMode \in {"open", "closed"}
    /\ tokens \subseteq Token
    /\ lastGrant \in [Clients -> Nat \cup {Never}]
    /\ restarts \in Nat

-----------------------------------------------------------------------------
(* What the policies of an answer carry as their authorized_clients.       *)
(* fetch_all returns the list of the plural endpoint apart from the        *)
(* policies, and _sync_once_multi drops it.                                *)
Carried(a) == IF a.plural THEN {} ELSE a.listed

(* cache.authorized_clients: those of the primary's snapshot.              *)
AuthorizedClients ==
    UNION {Carried(answers[s.rev]) : s \in {s \in snaps : s.name = primary}}

MayEnforce(c) == \E e \in AuthorizedClients : e.client = c /\ Enforce \in e.scopes

(* A process that has just started on an empty state directory.            *)
Init ==
    /\ snaps = {} /\ primary = None /\ lastSuccess = Never
    /\ legacy = None /\ files = {} /\ manifest = None
    /\ answers = <<>>
    /\ clock = 0
    /\ multi \in MultiModes /\ failMode \in FailModes
    /\ tokens = {}
    /\ lastGrant = [c \in Clients |-> Never]
    /\ restarts = 0

-----------------------------------------------------------------------------
(* The policies of an answer that is the r-th.                             *)
PoliciesOf(a, r) == {[name |-> n, rev |-> r] : n \in a.names}

(* A sync.  The GET has returned a; its policies are swapped in.           *)
Receives(a) ==
    LET r == Len(answers) + 1
    IN  /\ r <= MaxAnswers
        /\ answers' = Append(answers, a)
        /\ Swap(PoliciesOf(a, r), a.primary, a.at)
        /\ UNCHANGED <<clock, settings, tokens, restarts>>

(* fetch: one policy, the primary, with its list of clients.               *)
Single(n, l) ==
    [at |-> clock, plural |-> FALSE, names |-> {n}, primary |-> n, listed |-> l]

(* _sync_once_singular, with the write of policy.json done or failed.      *)
SyncOne(n, l) ==
    /\ ~ multi
    /\ Receives(Single(n, l))
    /\ \/ PersistLegacy([name |-> n, rev |-> Len(answers) + 1], clock)
       \/ UNCHANGED disk

(* fetch_all: the plural endpoint, or the singular one if it is not there. *)
Answered(names, prim, l) ==
    {[at |-> clock, plural |-> TRUE, names |-> names, primary |-> prim, listed |-> l]}
    \cup {Single(n, l) : n \in {n \in names : names = {n} /\ prim = n}}

(* _sync_once_multi.  The persist is done, or it was cut short by an error,*)
(* or by a kill: then a Restart should follow at once, and that another    *)
(* step may come first only adds behaviours.                               *)
SyncAll(names, prim, l) ==
    /\ multi
    /\ \E a \in Answered(names, prim, l) :
        /\ Receives(a)
        /\ LET policies == PoliciesOf(a, Len(answers) + 1)
           IN  PersistAll(policies, prim, clock) \/ PersistCutShort(policies, clock)

(* Mutant of Restart: what is loaded counts as fetched now.                *)
RestartLoadsAsNew ==
    /\ restarts < MaxRestarts
    /\ restarts' = restarts + 1
    /\ MemoryIs([DiskImage EXCEPT !.last = IF @ = Never THEN @ ELSE clock])
    /\ multi' \in MultiModes /\ failMode' \in FailModes
    /\ UNCHANGED <<disk, answers, clock, tokens>>

(* The process ends and another boots from the disk.                       *)
Restart ==
    /\ restarts < MaxRestarts
    /\ restarts' = restarts + 1
    /\ MemoryIs(DiskImage)
    /\ multi' \in MultiModes /\ failMode' \in FailModes
    /\ UNCHANGED <<disk, answers, clock, tokens>>

TimePasses ==
    /\ clock < MaxClock
    /\ clock' = clock + 1
    /\ UNCHANGED <<memory, disk, answers, settings, tokens, restarts>>

-----------------------------------------------------------------------------
(* Mutant of Narrowed: the scopes asked for are granted.                   *)
NotNarrowed(requested, allowed) == requested

(* narrow_scopes                                                           *)
Narrowed(requested, allowed) == requested \cap allowed

(* issue_token, for a client whose secret is right.  A cold cache, an      *)
(* unknown client and a request none of whose scopes is allowed are        *)
(* refused, and change nothing.                                            *)
IssueToken(e, requested) ==
    LET granted == Narrowed(requested, e.scopes)
    IN  /\ Cardinality(tokens) < MaxTokens
        /\ snaps # {}
        /\ e \in AuthorizedClients
        /\ requested # {} => granted # {}
        /\ tokens' = tokens \cup {[client |-> e.client, scopes |-> granted,
                                   exp |-> clock + TTL]}
        /\ UNCHANGED <<memory, disk, answers, clock, settings, restarts>>

-----------------------------------------------------------------------------
(* _require_agent_token                                                    *)
Admitted(t) == t.exp > clock /\ Enforce \in t.scopes

(* The snapshots a request is routed to: one, or none.  Without a name, or *)
(* in single-policy mode whatever the name, the primary's.                 *)
Routed(name) ==
    {s \in snaps : s.name = IF multi /\ name # None THEN name ELSE primary}

(* stale.status                                                            *)
Stale == lastSuccess = Never \/ clock - lastSuccess > Threshold

(* fail_mode_verdict, for a request that no policy was evaluated for.      *)
Blind == [verdict |-> IF failMode = "open" THEN "allow" ELSE "deny", evaluated |-> {}]

(* decide: what a request with token t for the policy name may be answered *)
(* with.  It is refused (401, 403, 400, 503) if that is the empty set.     *)
Decide(t, name) ==
    IF ~ Admitted(t) THEN {}
    ELSE IF Routed(name) = {} THEN
        IF failMode = "open" /\ ~ (multi /\ name # None) THEN {Blind} ELSE {}
    ELSE IF Stale THEN {Blind}
    ELSE [verdict : {"allow", "deny", "redact"}, evaluated : {Routed(name)}]

-----------------------------------------------------------------------------
Syncs ==
    \E l \in Listings :
        \/ \E n \in Names : SyncOne(n, l)
        \/ \E names \in SUBSET Names : \E prim \in names \cup {None} : SyncAll(names, prim, l)

Issues == \E e \in AuthorizedClients, requested \in SUBSET Scopes : IssueToken(e, requested)

(* History: after every step, the clients listed for Enforce are so now.   *)
Noted == lastGrant' = [c \in Clients |-> IF MayEnforce(c)' THEN clock' ELSE lastGrant[c]]

Next == (Syncs \/ Restart \/ TimePasses \/ Issues) /\ Noted

Spec == Init /\ [][Next]_vars

-----------------------------------------------------------------------------
(* routes/oauth.py, routes/decide.py: a decision is given only to a client *)
(* that the served list allowed to ask for one less than a token's life    *)
(* before, through any refreshes and restarts in between: a client that is *)
(* taken off the list is out of the door within TTL of the sync.           *)
GrantBehindDecision ==
    \A t \in tokens, name \in Names \cup {None} :
        Decide(t, name) # {} =>
            lastGrant[t.client] # Never /\ clock - lastGrant[t.client] < TTL

(* The memory was put together from the files of two persists.             *)
Mixed == \E s, t \in snaps : s.rev # t.rev

(* decide.py: "closed" is fail-safe.  In that mode an allow comes from a   *)
(* policy that the gateway sent within the threshold, whatever was         *)
(* restarted in between, unless a persist was cut short and a restart has  *)
(* mixed what it left: then the newest file vouches for all.               *)
AllowIsRecent ==
    failMode = "closed" /\ ~ Mixed =>
        \A t \in tokens, name \in Names \cup {None} :
            \A d \in Decide(t, name) :
                d.verdict = "allow" =>
                    \E s \in d.evaluated : clock - answers[s.rev].at <= Threshold

(* cache.py: "the plural endpoint hoists authorized_clients to the wrapper *)
(* and Edge stores a single de-duplicated list on the primary".            *)
ListReachesPrimary ==
    \A s \in snaps : s.name = primary => AuthorizedClients = answers[s.rev].listed
-----------------------------------------------------------------------------
(* The strengthening that EdgeDecideProofs rests on.                       *)

(* Answers are dated, and no later than now.                               *)
AnswersInv == \A r \in DOMAIN answers : answers[r].at <= clock

(* Every file holds a policy of an answer, and its mtime is the answer's   *)
(* time.                                                                   *)
IsOfAnswer(f) == f.rev \in DOMAIN answers /\ f.mtime = answers[f.rev].at

DiskInv == /\ \A f \in files : IsOfAnswer(f)
           /\ legacy # None => IsOfAnswer(legacy)

(* What is served came with answers, and the time of the last success is   *)
(* that of one of them.                                                    *)
ServedInv ==
    /\ \A s \in snaps : s.rev \in DOMAIN answers
    /\ snaps # {} => \E s \in snaps : lastSuccess = answers[s.rev].at

(* Those who may ask for Enforce now are noted as such, and a token for it *)
(* expires at most TTL after its client was last allowed to ask.           *)
GrantInv ==
    /\ \A c \in Clients : lastGrant[c] <= clock
    /\ \A c \in Clients : MayEnforce(c) => lastGrant[c] = clock
    /\ \A t \in tokens : Enforce \in t.scopes =>
           lastGrant[t.client] # Never /\ t.exp <= lastGrant[t.client] + TTL

IInv == TypeOK /\ AnswersInv /\ DiskInv /\ ServedInv /\ GrantInv
=============================================================================
