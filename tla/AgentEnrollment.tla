-------------------------- MODULE AgentEnrollment --------------------------
(***************************************************************************)
(* Enrollment, approval and authentication of one agent (agent_api.py,     *)
(* routers/agents.py, agent_challenges.py, auth_throttle.py).  A request   *)
(* reads the agent's row without a lock and writes the columns it changed  *)
(* when it commits.  The rows of challenges and throttles are locked.      *)
(*                                                                         *)
(* Bounds: one throttle stands for the one of the agent and the one of its *)
(* address, which are counted one after the other in the same way.         *)
(***************************************************************************)
EXTENDS Naturals

CONSTANTS AgentKeys,        \* public keys presented
          Nonces,           \* challenges, created in ascending order
          AuthRequests,     \* concurrent requests
          ChallengeLimit    \* agent_challenge_limit

ASSUME EnrollmentAssumption ==
    "none" \notin AgentKeys /\ Nonces \subseteq Nat \ {0} /\ ChallengeLimit \in Nat \ {0}

VARIABLES
    agentRow,    \* Agent: status, bound key, whether the secret is still set
    challenge,   \* per nonce: its AgentChallenge row and the tokens it gave
    throttle,    \* AuthThrottle: attempts and challenges of this window, lockout
    request      \* per request: what it does, what it read, the nonce it presents and
                 \* whether that was over by its clock, the rows its prune selected

enrollmentVars == <<agentRow, challenge, throttle, request>>

AgentState == [status : {"pending_enrollment", "pending_approval", "approved", "revoked"},
               key : AgentKeys \cup {"none"}, secret : BOOLEAN]
NewAgent == [status |-> "pending_enrollment", key |-> "none", secret |-> TRUE]
ChallengeState == [at : {"none", "live", "expired", "consumed", "deleted"}, tokens : Nat]
NoRequest == [at |-> "free", read |-> NewAgent, key |-> "none", nonce |-> 0, late |-> FALSE, doomed |-> {}]

EnrollmentTypeOK ==
    /\ agentRow \in AgentState
    /\ challenge \in [Nonces -> ChallengeState]
    /\ throttle \in [attempts : Nat, given : Nat, locked : BOOLEAN]
    /\ request \in [AuthRequests ->
          [at : {"free", "enroll", "approve", "revoke", "allowed", "pruning",
                 "token", "holds", "spent", "checked"},
           read : AgentState, key : AgentKeys \cup {"none"}, nonce : Nonces \cup {0},
           late : BOOLEAN, doomed : SUBSET Nonces]]

InitEnrollment ==
    /\ agentRow = NewAgent
    /\ challenge = [n \in Nonces |-> [at |-> "none", tokens |-> 0]]
    /\ throttle = [attempts |-> 0, given |-> 0, locked |-> FALSE]
    /\ request = [q \in AuthRequests |-> NoRequest]

Opens(q, at, key, nonce) ==
    /\ request[q].at = "free"
    /\ request' = [request EXCEPT ![q] =
          [at |-> at, read |-> agentRow, key |-> key, nonce |-> nonce,
           late |-> nonce # 0 /\ challenge[nonce].at = "expired", doomed |-> {}]]
Closes(q) == request' = [request EXCEPT ![q] = NoRequest]

\* The UPDATE of a request: the columns that differ from the row it read.
WriteAgent(q, new) ==
    /\ agentRow' = [c \in DOMAIN agentRow |->
                      IF new[c] = request[q].read[c] THEN agentRow[c] ELSE new[c]]
    /\ Closes(q) /\ UNCHANGED <<challenge, throttle>>

-----------------------------------------------------------------------------
(* The agent's row *)

\* enroll: refused when revoked, with another key than the bound one, or
\* without the secret, which approval and revocation erase.
EnrollRead(q) ==
    \E key \in AgentKeys :
        /\ agentRow.status \notin {"approved", "revoked"} /\ agentRow.secret
        /\ agentRow.key \in {"none", key}
        /\ Opens(q, "enroll", key, 0)
        /\ UNCHANGED <<agentRow, challenge, throttle>>

Enroll(q) ==
    /\ request[q].at = "enroll"
    /\ WriteAgent(q, [request[q].read EXCEPT !.key = request[q].key, !.status = "pending_approval"])

\* approve_agent
ApproveRead(q) ==
    /\ agentRow.status # "revoked" /\ agentRow.key # "none"
    /\ Opens(q, "approve", "none", 0)
    /\ UNCHANGED <<agentRow, challenge, throttle>>

Approve(q) ==
    /\ request[q].at = "approve"
    /\ WriteAgent(q, [request[q].read EXCEPT !.status = "approved", !.secret = FALSE])

\* revoke_agent
RevokeRead(q) == Opens(q, "revoke", "none", 0) /\ UNCHANGED <<agentRow, challenge, throttle>>

Revoke(q) ==
    /\ request[q].at = "revoke"
    /\ WriteAgent(q, [request[q].read EXCEPT !.status = "revoked", !.secret = FALSE])

-----------------------------------------------------------------------------
(* Challenges *)

\* _record_attempt: a locked row refuses, and so does the attempt over the limit.
Blocked(t) == t.locked \/ t.attempts >= ChallengeLimit

Attempted(t) ==
    IF t.locked THEN t
    ELSE IF Blocked(t) THEN [t EXCEPT !.attempts = @ + 1, !.locked = TRUE]
    ELSE [t EXCEPT !.attempts = @ + 1]

\* challenge, up to assert_challenge_allowed, which locks the row of the
\* throttle and commits.
AskChallenge(q) ==
    /\ request[q].at = "free" /\ agentRow.status # "revoked" /\ agentRow.key # "none"
    /\ throttle.attempts <= ChallengeLimit     \* bound: attempts of a window
    /\ throttle' = [Attempted(throttle) EXCEPT !.given = IF Blocked(throttle) THEN @ ELSE @ + 1]
    /\ request' = IF Blocked(throttle) THEN request ELSE [request EXCEPT ![q].at = "allowed"]
    /\ UNCHANGED <<agentRow, challenge>>

Held(n) == \E q \in AuthRequests : request[q].at = "holds" /\ request[q].nonce = n

\* create_challenge: prune_expired_challenges selects the rows to delete without
\* locking them.
SelectExpired(q) ==
    /\ request[q].at = "allowed"
    /\ request' = [request EXCEPT ![q].at = "pruning",
                      ![q].doomed = {n \in Nonces : challenge[n].at = "expired"}]
    /\ UNCHANGED <<agentRow, challenge, throttle>>

\* Its commit deletes them by id.  A row that a token request holds makes it
\* wait, and is deleted after that although it may be consumed by then.
CreateChallenge(q) ==
    LET free == {n \in Nonces : challenge[n].at = "none"} IN
    /\ request[q].at = "pruning" /\ free # {}
    /\ \A n \in request[q].doomed : ~Held(n)
    /\ challenge' = [n \in Nonces |->
          IF n \in free /\ \A k \in free : n <= k THEN [challenge[n] EXCEPT !.at = "live"]
          ELSE IF n \in request[q].doomed THEN [challenge[n] EXCEPT !.at = "deleted"]
          ELSE challenge[n]]
    /\ Closes(q) /\ UNCHANGED <<agentRow, throttle>>

ChallengeExpires(n) ==
    /\ challenge[n].at = "live"
    /\ challenge' = [challenge EXCEPT ![n].at = "expired"]
    /\ UNCHANGED <<agentRow, throttle, request>>

\* The window of the throttle passes (_reset_window at the next attempt that
\* finds the row unlocked), and the lockout ends.
WindowPasses ==
    /\ ~throttle.locked /\ throttle.attempts > 0
    /\ throttle' = [attempts |-> 0, given |-> 0, locked |-> FALSE]
    /\ UNCHANGED <<agentRow, challenge, request>>
LockoutEnds ==
    /\ throttle.locked
    /\ throttle' = [throttle EXCEPT !.locked = FALSE]
    /\ UNCHANGED <<agentRow, challenge, request>>

\* token: a nonce may be presented by several requests.
TokenRead(q) ==
    \E n \in Nonces :
        /\ agentRow.status # "revoked" /\ agentRow.key # "none" /\ challenge[n].at # "none"
        /\ Opens(q, "token", "none", n)
        /\ UNCHANGED <<agentRow, challenge, throttle>>

\* Mutated form: the row is read without FOR UPDATE.
MayHold_Always(n) == TRUE

MayHold(n) == ~Held(n)

\* consume_challenge: the row that is not consumed, once no other holds it.
HoldChallenge(q) ==
    LET n == request[q].nonce IN
    /\ request[q].at = "token" /\ MayHold(n)
    /\ IF challenge[n].at \in {"live", "expired"}
       THEN request' = [request EXCEPT ![q].at = "holds"] ELSE Closes(q)
    /\ UNCHANGED <<agentRow, challenge, throttle>>

\* Its commit: a challenge that was over when the request read the clock is
\* deleted and refused.
ConsumeChallenge(q) ==
    /\ request[q].at = "holds"
    /\ challenge' = [challenge EXCEPT ![request[q].nonce].at = IF request[q].late THEN "deleted" ELSE "consumed"]
    /\ IF request[q].late THEN Closes(q) ELSE request' = [request EXCEPT ![q].at = "spent"]
    /\ UNCHANGED <<agentRow, throttle>>

\* The refresh after that commit fails for a row that a prune has deleted.
RefreshChallenge(q) ==
    /\ request[q].at = "spent"
    /\ IF challenge[request[q].nonce].at = "deleted" THEN Closes(q)
       ELSE request' = [request EXCEPT ![q].at = "checked"]
    /\ UNCHANGED <<agentRow, challenge, throttle>>

\* The agent's row is read again: the signature is checked against the key bound
\* by now, and only an approved agent gets a token.
IssueToken(q) ==
    /\ request[q].at = "checked"
    /\ \E signed \in BOOLEAN :
         challenge' = IF signed /\ agentRow.status = "approved"
                      THEN [challenge EXCEPT ![request[q].nonce].tokens = @ + 1] ELSE challenge
    /\ Closes(q) /\ UNCHANGED <<agentRow, throttle>>

RequestStep(q) ==
    \/ EnrollRead(q) \/ Enroll(q) \/ ApproveRead(q) \/ Approve(q) \/ RevokeRead(q) \/ Revoke(q)
    \/ AskChallenge(q) \/ SelectExpired(q) \/ CreateChallenge(q)
    \/ TokenRead(q) \/ HoldChallenge(q) \/ ConsumeChallenge(q) \/ RefreshChallenge(q) \/ IssueToken(q)

NextEnrollment ==
    \/ \E q \in AuthRequests : RequestStep(q)
    \/ \E n \in Nonces : ChallengeExpires(n)
    \/ WindowPasses \/ LockoutEnds

EnrollmentSpec == InitEnrollment /\ [][NextEnrollment]_enrollmentVars

-----------------------------------------------------------------------------
\* A challenge gives at most one token however many requests present it at
\* once, expire it or prune it: the row of one that gave it is consumed, or
\* deleted by a prune that selected it before that.  A window of the throttle
\* gives at most agent_challenge_limit challenges.
ChallengesAreLimited ==
    /\ \A n \in Nonces :
          /\ challenge[n].tokens <= 1
          /\ challenge[n].tokens = 1 => challenge[n].at \in {"consumed", "deleted"}
    /\ throttle.given <= ChallengeLimit
=============================================================================
