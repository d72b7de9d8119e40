----------------------------- MODULE ScopeProofs ----------------------------
(*****************************************************************************)
(* Proofs about who may act and on what.  AgentEnrollment, for any requests, *)
(* challenges and keys; Locality, for any sites, networks and agents;        *)
(* StaffAccess, for any users, requests and challenges; RunTargets, for any  *)
(* addresses, exclusions and answers of the DNS; ScanPipeline, for any       *)
(* targets; RawArtifacts, for any uploads and contents.                      *)
(*****************************************************************************)
EXTENDS AgentEnrollment, Locality, StaffAccess, RunTargets, ScanPipeline, RawArtifacts,
        FiniteSetTheorems, TLAPS


-----------------------------------------------------------------------------
(* AgentEnrollment: a challenge gives one token, a window a bounded number of challenges *)

USE EnrollmentAssumption

\* Only an attempt that counted gives a challenge.
ThrottleCounts == throttle.given <= throttle.attempts /\ throttle.given <= ChallengeLimit

\* A row that gave a token was consumed, and gave one; a prune may have deleted
\* it since.
Used == {"consumed", "deleted"}
TokensAreSingle == \A n \in Nonces : challenge[n].tokens <= 1 /\ (challenge[n].tokens = 1 => challenge[n].at \in Used)

\* A request that holds a row finds it unconsumed; one that consumed it is
\* the only one that may still issue its token.
Spent == {"spent", "checked"}
HoldersAreSafe ==
    /\ \A q \in AuthRequests : request[q].at \in {"token", "holds"} \cup Spent => request[q].nonce \in Nonces
    /\ \A q \in AuthRequests : request[q].at = "holds" => challenge[request[q].nonce].at \in {"live", "expired"}
    /\ \A q \in AuthRequests : request[q].at \in Spent =>
          challenge[request[q].nonce].at \in Used /\ challenge[request[q].nonce].tokens = 0
    /\ \A p, q \in AuthRequests : p # q /\ request[p].at = "holds" /\ request[q].at = "holds"
                                     => request[p].nonce # request[q].nonce
    /\ \A p, q \in AuthRequests : p # q /\ request[p].at \in Spent /\ request[q].at \in Spent
                                     => request[p].nonce # request[q].nonce

EnrollmentInv == EnrollmentTypeOK /\ ThrottleCounts /\ TokensAreSingle /\ HoldersAreSafe

RequestRow == [at : {"free", "enroll", "approve", "revoke", "allowed", "pruning",
                     "token", "holds", "spent", "checked"},
               read : AgentState, key : AgentKeys \cup {"none"}, nonce : Nonces \cup {0},
               late : BOOLEAN, doomed : SUBSET Nonces]

\* A free slot is well typed.
LEMMA NoRequestTyped == NoRequest \in RequestRow /\ NoRequest.at = "free"
<1>1. NewAgent \in AgentState
  BY DEF NewAgent, AgentState
<1> QED
  BY <1>1 DEF NoRequest, RequestRow

\* A new agent, no challenge, no request.
LEMMA EnrollmentInitHolds == InitEnrollment => EnrollmentInv
<1> SUFFICES ASSUME InitEnrollment PROVE EnrollmentInv
  OBVIOUS
<1>1. agentRow \in AgentState
  BY DEF InitEnrollment, NewAgent, AgentState
<1>2. challenge \in [Nonces -> ChallengeState] /\ \A n \in Nonces : challenge[n].tokens = 0
  BY DEF InitEnrollment, ChallengeState
<1>3. throttle \in [attempts : Nat, given : Nat, locked : BOOLEAN] /\ throttle.given = 0 /\ throttle.attempts = 0
  BY DEF InitEnrollment
<1>4. request \in [AuthRequests -> RequestRow] /\ \A q \in AuthRequests : request[q].at = "free"
  BY NoRequestTyped DEF InitEnrollment
<1> QED
  BY <1>1, <1>2, <1>3, <1>4 DEF EnrollmentInv, EnrollmentTypeOK, RequestRow, ThrottleCounts, TokensAreSingle,
     HoldersAreSafe, Spent

\* A request that begins, or ends, without holding a row.
LEMMA RequestMoves ==
    ASSUME EnrollmentInv, NEW q \in AuthRequests, NEW row \in RequestRow,
           request' = [request EXCEPT ![q] = row], row.at \notin {"holds"} \cup Spent,
           row.at = "token" => row.nonce \in Nonces
    PROVE  /\ request' \in [AuthRequests -> RequestRow]
           /\ request'[q] = row /\ \A p \in AuthRequests \ {q} : request'[p] = request[p]
BY DEF EnrollmentInv, EnrollmentTypeOK, RequestRow

\* Such a step leaves the challenges safe as long as it leaves them alone.
LEMMA QuietStep ==
    ASSUME EnrollmentInv, NEW q \in AuthRequests, NEW row \in RequestRow,
           request' = [request EXCEPT ![q] = row], row.at \notin {"holds"} \cup Spent,
           row.at = "token" => row.nonce \in Nonces,
           UNCHANGED <<challenge, throttle>>, agentRow' \in AgentState
    PROVE  EnrollmentInv'
<1>1. /\ request' \in [AuthRequests -> RequestRow]
      /\ request'[q] = row /\ \A p \in AuthRequests \ {q} : request'[p] = request[p]
  BY RequestMoves
<1>2. EnrollmentTypeOK'
  BY <1>1 DEF EnrollmentInv, EnrollmentTypeOK, RequestRow
<1>3. ThrottleCounts' /\ TokensAreSingle'
  BY DEF EnrollmentInv, ThrottleCounts, TokensAreSingle
<1>4. HoldersAreSafe'
  BY <1>1 DEF EnrollmentInv, HoldersAreSafe, Spent
<1> QED
  BY <1>2, <1>3, <1>4 DEF EnrollmentInv

\* A request that has read what it will decide on.
LEMMA OpenStep ==
    ASSUME EnrollmentInv, NEW q \in AuthRequests, NEW at \in {"enroll", "approve", "revoke", "token"},
           NEW key \in AgentKeys \cup {"none"}, NEW nonce \in Nonces \cup {0}, Opens(q, at, key, nonce),
           at = "token" => nonce \in Nonces, UNCHANGED <<agentRow, challenge, throttle>>
    PROVE  EnrollmentInv'
<1> DEFINE row == [at |-> at, read |-> agentRow, key |-> key, nonce |-> nonce,
                   late |-> nonce # 0 /\ challenge[nonce].at = "expired", doomed |-> {}]
<1>1. agentRow \in AgentState
  BY DEF EnrollmentInv, EnrollmentTypeOK
<1>2. row \in RequestRow /\ row.at = at /\ row.nonce = nonce /\ row.at \notin {"holds"} \cup Spent
  BY <1>1 DEF RequestRow, Spent
<1>3. request' = [request EXCEPT ![q] = row]
  BY DEF Opens
<1> HIDE DEF row
<1> QED
  BY <1>1, <1>2, <1>3, QuietStep

\* enroll, approve and revoke write the agent they decided on.
LEMMA WriteStep ==
    ASSUME EnrollmentInv, NEW q \in AuthRequests, NEW new \in AgentState, WriteAgent(q, new)
    PROVE  EnrollmentInv'
<1>1. agentRow \in AgentState
  BY DEF EnrollmentInv, EnrollmentTypeOK
<1>2. agentRow' \in AgentState
  BY <1>1 DEF WriteAgent, AgentState
<1>3. request' = [request EXCEPT ![q] = NoRequest] /\ UNCHANGED <<challenge, throttle>>
  BY DEF WriteAgent, Closes
<1> QED
  BY <1>2, <1>3, NoRequestTyped, QuietStep DEF Spent

\* enroll, approve_agent and revoke_agent never touch a challenge.
LEMMA RowSteps ==
    ASSUME EnrollmentInv, NEW q \in AuthRequests,
           \/ EnrollRead(q) \/ Enroll(q) \/ ApproveRead(q) \/ Approve(q) \/ RevokeRead(q) \/ Revoke(q)
           \/ TokenRead(q)
    PROVE  EnrollmentInv'
<1>1. request[q] \in RequestRow /\ request[q].read \in AgentState /\ request[q].key \in AgentKeys \cup {"none"}
  BY DEF EnrollmentInv, EnrollmentTypeOK, RequestRow
<1>2. CASE EnrollRead(q)
  BY <1>2, OpenStep DEF EnrollRead
<1>3. CASE Enroll(q)
  <2>1. [request[q].read EXCEPT !.key = request[q].key, !.status = "pending_approval"] \in AgentState
    BY <1>1 DEF AgentState
  <2> QED
    BY <1>3, <2>1, WriteStep DEF Enroll
<1>4. CASE ApproveRead(q)
  BY <1>4, OpenStep DEF ApproveRead
<1>5. CASE Approve(q)
  <2>1. [request[q].read EXCEPT !.status = "approved", !.secret = FALSE] \in AgentState
    BY <1>1 DEF AgentState
  <2> QED
    BY <1>5, <2>1, WriteStep DEF Approve
<1>6. CASE RevokeRead(q)
  BY <1>6, OpenStep DEF RevokeRead
<1>7. CASE Revoke(q)
  <2>1. [request[q].read EXCEPT !.status = "revoked", !.secret = FALSE] \in AgentState
    BY <1>1 DEF AgentState
  <2> QED
    BY <1>7, <2>1, WriteStep DEF Revoke
<1>8. CASE TokenRead(q)
  BY <1>8, OpenStep DEF TokenRead
<1> QED
  BY <1>2, <1>3, <1>4, <1>5, <1>6, <1>7, <1>8

ThrottleRow == [attempts : Nat, given : Nat, locked : BOOLEAN]

\* assert_challenge_allowed counts an attempt before it gives a challenge.
LEMMA AskStep ==
    ASSUME EnrollmentInv, NEW q \in AuthRequests, AskChallenge(q)
    PROVE  EnrollmentInv'
<1>1. throttle \in ThrottleRow /\ throttle.given <= throttle.attempts /\ throttle.given <= ChallengeLimit
  BY DEF EnrollmentInv, EnrollmentTypeOK, ThrottleCounts, ThrottleRow
<1>2. throttle' = [Attempted(throttle) EXCEPT !.given = IF Blocked(throttle) THEN @ ELSE @ + 1]
  BY DEF AskChallenge
<1>3. throttle' \in ThrottleRow /\ ThrottleCounts'
  <2>1. CASE throttle.locked
    BY <1>1, <1>2, <2>1 DEF Attempted, Blocked, ThrottleCounts, ThrottleRow
  <2>2. CASE ~throttle.locked /\ throttle.attempts >= ChallengeLimit
    <3>1. Blocked(throttle)
      BY <1>1, <2>2 DEF Blocked
    <3>2. Attempted(throttle) = [throttle EXCEPT !.attempts = @ + 1, !.locked = TRUE]
      BY <2>2, <3>1 DEF Attempted
    <3>3. throttle' = [throttle EXCEPT !.attempts = @ + 1, !.locked = TRUE]
      BY <1>1, <1>2, <3>1, <3>2 DEF ThrottleRow
    <3>4. throttle'.attempts = throttle.attempts + 1 /\ throttle'.given = throttle.given /\ throttle' \in ThrottleRow
      <4>1. PICK more \in Nat : more = throttle.attempts + 1
        BY <1>1 DEF ThrottleRow
      <4>2. throttle' = [throttle EXCEPT !.attempts = more, !.locked = TRUE]
        BY <3>3, <4>1
      <4>3. throttle'.attempts = more /\ throttle'.given = throttle.given /\ throttle' \in ThrottleRow
        BY <1>1, <4>2 DEF ThrottleRow
      <4> QED
        BY <4>1, <4>3
    <3> QED
      BY <1>1, <3>4 DEF ThrottleCounts, ThrottleRow
  <2>3. CASE ~throttle.locked /\ throttle.attempts < ChallengeLimit
    <3>1. ~Blocked(throttle)
      BY <1>1, <2>3 DEF Blocked, ThrottleRow
    <3>2. Attempted(throttle) = [throttle EXCEPT !.attempts = @ + 1]
      BY <2>3, <3>1 DEF Attempted
    <3>3. throttle' = [throttle EXCEPT !.attempts = @ + 1, !.given = @ + 1]
      BY <1>1, <1>2, <3>1, <3>2 DEF ThrottleRow
    <3>4. throttle'.attempts = throttle.attempts + 1 /\ throttle'.given = throttle.given + 1 /\ throttle' \in ThrottleRow
      <4>1. PICK more \in Nat : more = throttle.attempts + 1
        BY <1>1 DEF ThrottleRow
      <4>2. PICK given \in Nat : given = throttle.given + 1
        BY <1>1 DEF ThrottleRow
      <4>3. throttle' = [throttle EXCEPT !.attempts = more, !.given = given]
        BY <3>3, <4>1, <4>2
      <4>4. throttle'.attempts = more /\ throttle'.given = given /\ throttle' \in ThrottleRow
        BY <1>1, <4>3 DEF ThrottleRow
      <4> QED
        BY <4>1, <4>2, <4>4
    <3> QED
      BY <1>1, <2>3, <3>4 DEF ThrottleCounts, ThrottleRow
  <2> QED
    BY <1>1, <2>1, <2>2, <2>3 DEF ThrottleRow
<1>4. /\ request' \in [AuthRequests -> RequestRow] /\ request'[q].at \in {"free", "allowed"}
      /\ request[q].at = "free" /\ \A p \in AuthRequests \ {q} : request'[p] = request[p]
  <2>1. request \in [AuthRequests -> RequestRow] /\ request[q].at = "free"
    BY DEF AskChallenge, EnrollmentInv, EnrollmentTypeOK, RequestRow
  <2>2. CASE request' = request
    BY <2>1, <2>2
  <2>3. CASE request' = [request EXCEPT ![q].at = "allowed"]
    <3>1. request' = [request EXCEPT ![q] = [request[q] EXCEPT !.at = "allowed"]]
      BY <2>1, <2>3
    <3>2. [request[q] EXCEPT !.at = "allowed"] \in RequestRow /\ [request[q] EXCEPT !.at = "allowed"].at = "allowed"
      BY <2>1 DEF RequestRow
    <3> QED
      BY <2>1, <3>1, <3>2
  <2> QED
    BY <2>2, <2>3 DEF AskChallenge
<1>5. UNCHANGED <<agentRow, challenge>>
  BY DEF AskChallenge
<1>6. EnrollmentTypeOK'
  BY <1>3, <1>4, <1>5 DEF EnrollmentInv, EnrollmentTypeOK, RequestRow, ThrottleRow
<1>7. TokensAreSingle' /\ HoldersAreSafe'
  BY <1>4, <1>5 DEF EnrollmentInv, TokensAreSingle, HoldersAreSafe, Spent
<1> QED
  BY <1>3, <1>6, <1>7 DEF EnrollmentInv

\* prune_expired_challenges selects rows and locks none.
LEMMA SelectStep ==
    ASSUME EnrollmentInv, NEW q \in AuthRequests, SelectExpired(q)
    PROVE  EnrollmentInv'
<1> DEFINE row == [request[q] EXCEPT !.at = "pruning", !.doomed = {n \in Nonces : challenge[n].at = "expired"}]
<1>1. request \in [AuthRequests -> RequestRow] /\ agentRow' \in AgentState /\ UNCHANGED <<challenge, throttle>>
  BY DEF SelectExpired, EnrollmentInv, EnrollmentTypeOK, RequestRow
<1>2. row \in RequestRow /\ row.at = "pruning"
  BY <1>1 DEF RequestRow
<1>3. request' = [request EXCEPT ![q] = row]
  BY <1>1 DEF SelectExpired, RequestRow
<1> HIDE DEF row
<1> QED
  BY <1>1, <1>2, <1>3, QuietStep DEF Spent

\* create_challenge deletes the rows its prune selected and inserts one.  None of
\* them is held, so those it finds consumed have been used.
LEMMA CreateStep ==
    ASSUME EnrollmentInv, NEW q \in AuthRequests, CreateChallenge(q)
    PROVE  EnrollmentInv'
<1>1. challenge \in [Nonces -> ChallengeState]
  BY DEF EnrollmentInv, EnrollmentTypeOK
<1>2. ASSUME NEW n \in Nonces
      PROVE  /\ challenge'[n] \in ChallengeState /\ challenge'[n].tokens = challenge[n].tokens
             /\ challenge[n].at \in Used => challenge'[n].at \in Used
             /\ Held(n) => challenge'[n].at = challenge[n].at \/ challenge[n].at = "none"
  <2>1. challenge[n] \in ChallengeState
    BY <1>1
  <2>2. \/ challenge'[n] = challenge[n]
        \/ challenge[n].at = "none" /\ challenge'[n] = [challenge[n] EXCEPT !.at = "live"]
        \/ n \in request[q].doomed /\ challenge'[n] = [challenge[n] EXCEPT !.at = "deleted"]
    BY DEF CreateChallenge
  <2>3. n \in request[q].doomed => ~Held(n)
    BY DEF CreateChallenge
  <2> QED
    BY <2>1, <2>2, <2>3 DEF ChallengeState, Used
<1>3. challenge' \in [Nonces -> ChallengeState]
  BY <1>2 DEF CreateChallenge
<1>4. /\ request' \in [AuthRequests -> RequestRow]
      /\ request'[q] = NoRequest /\ \A p \in AuthRequests \ {q} : request'[p] = request[p]
  BY NoRequestTyped, RequestMoves DEF CreateChallenge, Closes, Spent
<1>5. UNCHANGED <<agentRow, throttle>>
  BY DEF CreateChallenge
<1>6. EnrollmentTypeOK'
  BY <1>3, <1>4, <1>5 DEF EnrollmentInv, EnrollmentTypeOK, RequestRow
<1>7. ThrottleCounts'
  BY <1>5 DEF EnrollmentInv, ThrottleCounts
<1>8. TokensAreSingle'
  <2> SUFFICES ASSUME NEW n \in Nonces
               PROVE  challenge'[n].tokens <= 1 /\ (challenge'[n].tokens = 1 => challenge'[n].at \in Used)
    BY DEF TokensAreSingle
  <2>1. challenge[n].tokens <= 1 /\ (challenge[n].tokens = 1 => challenge[n].at \in Used)
    BY DEF EnrollmentInv, TokensAreSingle
  <2> QED
    BY <1>2, <2>1
<1>9. HoldersAreSafe'
  <2>1. \A p \in AuthRequests : request'[p].at # "free" => request'[p] = request[p]
    BY <1>4, NoRequestTyped
  <2>2. HoldersAreSafe
    BY DEF EnrollmentInv
  <2>3. \A p \in AuthRequests : request'[p].at \in {"token", "holds"} \cup Spent => request'[p].nonce \in Nonces
    BY <2>1, <2>2 DEF HoldersAreSafe, Spent
  <2>4. ASSUME NEW p \in AuthRequests, request'[p].at = "holds"
        PROVE  challenge'[request'[p].nonce].at \in {"live", "expired"}
    <3>1. request'[p] = request[p] /\ request[p].at = "holds"
      BY <2>1, <2>4
    <3>2. Held(request[p].nonce) /\ request[p].nonce \in Nonces
          /\ challenge[request[p].nonce].at \in {"live", "expired"}
      BY <2>2, <3>1 DEF HoldersAreSafe, Held
    <3> QED
      BY <1>2, <3>1, <3>2
  <2>5. ASSUME NEW p \in AuthRequests, request'[p].at \in Spent
        PROVE  challenge'[request'[p].nonce].at \in Used /\ challenge'[request'[p].nonce].tokens = 0
    <3>1. request'[p] = request[p] /\ request[p].at \in Spent
      BY <2>1, <2>5 DEF Spent
    <3>2. request[p].nonce \in Nonces
          /\ challenge[request[p].nonce].at \in Used /\ challenge[request[p].nonce].tokens = 0
      BY <2>2, <3>1 DEF HoldersAreSafe
    <3> QED
      BY <1>2, <3>1, <3>2
  <2>6. ASSUME NEW p \in AuthRequests, NEW r \in AuthRequests, p # r,
               \/ request'[p].at = "holds" /\ request'[r].at = "holds"
               \/ request'[p].at \in Spent /\ request'[r].at \in Spent
        PROVE  request'[p].nonce # request'[r].nonce
    BY <2>1, <2>2, <2>6 DEF HoldersAreSafe, Spent
  <2> QED
    BY <2>3, <2>4, <2>5, <2>6 DEF HoldersAreSafe
<1> QED
  BY <1>6, <1>7, <1>8, <1>9 DEF EnrollmentInv

\* A challenge expires, a window passes, a lockout ends.
LEMMA ClockSteps ==
    ASSUME EnrollmentInv, (\E n \in Nonces : ChallengeExpires(n)) \/ WindowPasses \/ LockoutEnds
    PROVE  EnrollmentInv'
<1>1. CASE WindowPasses
  BY <1>1 DEF WindowPasses, EnrollmentInv, EnrollmentTypeOK, ThrottleCounts, TokensAreSingle, HoldersAreSafe
<1>2. CASE LockoutEnds
  BY <1>2 DEF LockoutEnds, EnrollmentInv, EnrollmentTypeOK, ThrottleCounts, TokensAreSingle, HoldersAreSafe
<1>3. ASSUME NEW n \in Nonces, ChallengeExpires(n)
      PROVE  EnrollmentInv'
  <2>1. challenge[n] \in ChallengeState /\ challenge[n].at = "live"
        /\ challenge' = [challenge EXCEPT ![n] = [challenge[n] EXCEPT !.at = "expired"]]
        /\ UNCHANGED <<agentRow, throttle, request>>
    BY <1>3 DEF ChallengeExpires, EnrollmentInv, EnrollmentTypeOK
  <2>2. /\ challenge' \in [Nonces -> ChallengeState]
        /\ challenge'[n].at = "expired" /\ challenge'[n].tokens = challenge[n].tokens
        /\ \A k \in Nonces \ {n} : challenge'[k] = challenge[k]
    BY <2>1 DEF EnrollmentInv, EnrollmentTypeOK, ChallengeState
  <2>3. EnrollmentTypeOK' /\ ThrottleCounts'
    BY <2>1, <2>2 DEF EnrollmentInv, EnrollmentTypeOK, ThrottleCounts
  <2>4. TokensAreSingle' /\ HoldersAreSafe'
    BY <2>1, <2>2 DEF EnrollmentInv, TokensAreSingle, HoldersAreSafe, Used
  <2> QED
    BY <2>3, <2>4 DEF EnrollmentInv
<1> QED
  BY <1>1, <1>2, <1>3

\* consume_challenge takes the row with FOR UPDATE.
LEMMA HoldStep ==
    ASSUME EnrollmentInv, NEW q \in AuthRequests, HoldChallenge(q)
    PROVE  EnrollmentInv'
<1> DEFINE n == request[q].nonce
<1>1. n \in Nonces /\ ~Held(n) /\ UNCHANGED <<agentRow, challenge, throttle>>
  BY DEF HoldChallenge, MayHold, EnrollmentInv, HoldersAreSafe
<1>2. CASE challenge[n].at \in {"live", "expired"}
  <2>1. /\ request \in [AuthRequests -> RequestRow]
        /\ request' = [request EXCEPT ![q] = [request[q] EXCEPT !.at = "holds"]]
    BY <1>2 DEF HoldChallenge, EnrollmentInv, EnrollmentTypeOK, RequestRow
  <2>2. /\ request' \in [AuthRequests -> RequestRow] /\ request'[q].at = "holds" /\ request'[q].nonce = n
        /\ \A p \in AuthRequests \ {q} : request'[p] = request[p]
    BY <2>1 DEF RequestRow
  <2>3. EnrollmentTypeOK' /\ ThrottleCounts' /\ TokensAreSingle'
    BY <1>1, <2>2 DEF EnrollmentInv, EnrollmentTypeOK, ThrottleCounts, TokensAreSingle, RequestRow
  <2>4. \A p \in AuthRequests : request[p].at = "holds" => request[p].nonce # n
    BY <1>1 DEF Held
  <2>5. HoldersAreSafe'
    <3> HIDE DEF n
    <3> QED
      BY <1>1, <1>2, <2>2, <2>4 DEF EnrollmentInv, HoldersAreSafe, Spent
  <2> QED
    BY <2>3, <2>5 DEF EnrollmentInv
<1>3. CASE challenge[n].at \notin {"live", "expired"}
  <2>1. request' = [request EXCEPT ![q] = NoRequest]
    BY <1>3 DEF HoldChallenge, Closes
  <2>2. agentRow' \in AgentState
    BY <1>1 DEF EnrollmentInv, EnrollmentTypeOK
  <2> QED
    BY <1>1, <2>1, <2>2, NoRequestTyped, QuietStep DEF Spent
<1> QED
  BY <1>2, <1>3

\* The commit of consume_challenge: no other request holds the row.
LEMMA ConsumeStep ==
    ASSUME EnrollmentInv, NEW q \in AuthRequests, ConsumeChallenge(q)
    PROVE  EnrollmentInv'
<1> DEFINE n == request[q].nonce
           late == request[q].late
<1>1. /\ n \in Nonces /\ challenge[n].at \in {"live", "expired"} /\ UNCHANGED <<agentRow, throttle>>
      /\ request \in [AuthRequests -> RequestRow] /\ challenge \in [Nonces -> ChallengeState]
      /\ late \in BOOLEAN
  BY DEF ConsumeChallenge, EnrollmentInv, EnrollmentTypeOK, HoldersAreSafe, RequestRow
<1>2. /\ challenge' = [challenge EXCEPT ![n] = [challenge[n] EXCEPT !.at = IF late THEN "deleted" ELSE "consumed"]]
      /\ request' = [request EXCEPT ![q] = IF late THEN NoRequest ELSE [request[q] EXCEPT !.at = "spent"]]
  BY <1>1 DEF ConsumeChallenge, Closes
<1>3. challenge[n].tokens = 0
  <2>1. challenge[n].tokens \in Nat
    BY <1>1 DEF ChallengeState
  <2>2. challenge[n].tokens <= 1 /\ challenge[n].tokens # 1
    BY <1>1 DEF EnrollmentInv, TokensAreSingle, Used
  <2> QED
    BY <2>1, <2>2
<1>4. /\ challenge' \in [Nonces -> ChallengeState] /\ challenge'[n].tokens = 0 /\ challenge'[n].at \in Used
      /\ \A k \in Nonces \ {n} : challenge'[k] = challenge[k]
  BY <1>1, <1>2, <1>3 DEF ChallengeState, Used
<1>5. /\ request' \in [AuthRequests -> RequestRow] /\ request'[q].at = (IF late THEN "free" ELSE "spent")
      /\ ~late => request'[q].nonce = n
      /\ \A p \in AuthRequests \ {q} : request'[p] = request[p]
  <2>1. [request[q] EXCEPT !.at = "spent"] \in RequestRow /\ [request[q] EXCEPT !.at = "spent"].at = "spent"
        /\ [request[q] EXCEPT !.at = "spent"].nonce = n
    BY <1>1 DEF RequestRow
  <2> QED
    BY <1>1, <1>2, <2>1, NoRequestTyped
<1>6. \A p \in AuthRequests \ {q} : request[p].at \in {"holds"} \cup Spent => request[p].nonce # n
  BY <1>1 DEF ConsumeChallenge, EnrollmentInv, HoldersAreSafe, Used
<1>7. EnrollmentTypeOK' /\ ThrottleCounts'
  BY <1>1, <1>4, <1>5 DEF EnrollmentInv, EnrollmentTypeOK, ThrottleCounts, RequestRow
<1> HIDE DEF n, late
<1>8. TokensAreSingle'
  BY <1>4 DEF EnrollmentInv, TokensAreSingle
<1>9. HoldersAreSafe'
  <2>1. \A p \in AuthRequests : request'[p].at \in {"token", "holds"} \cup Spent => request'[p].nonce \in Nonces
    BY <1>1, <1>5 DEF EnrollmentInv, HoldersAreSafe, Spent
  <2>2. ASSUME NEW p \in AuthRequests, request'[p].at = "holds"
        PROVE  challenge'[request'[p].nonce].at \in {"live", "expired"}
    <3>1. p # q /\ request[p].at = "holds" /\ request'[p] = request[p] /\ request[p].nonce # n
      BY <1>5, <1>6, <2>2
    <3>2. request[p].nonce \in Nonces /\ challenge[request[p].nonce].at \in {"live", "expired"}
      BY <3>1 DEF EnrollmentInv, HoldersAreSafe
    <3> QED
      BY <1>4, <3>1, <3>2
  <2>3. ASSUME NEW p \in AuthRequests, request'[p].at \in Spent
        PROVE  challenge'[request'[p].nonce].at \in Used /\ challenge'[request'[p].nonce].tokens = 0
    <3>1. CASE p = q
      BY <1>4, <1>5, <2>3, <3>1 DEF Spent
    <3>2. CASE p # q
      <4>1. request[p].at \in Spent /\ request'[p] = request[p] /\ request[p].nonce # n
        BY <1>5, <1>6, <2>3, <3>2
      <4>2. request[p].nonce \in Nonces /\ challenge[request[p].nonce].at \in Used /\ challenge[request[p].nonce].tokens = 0
        BY <4>1 DEF EnrollmentInv, HoldersAreSafe
      <4> QED
        BY <1>4, <4>1, <4>2
    <3> QED
      BY <3>1, <3>2
  <2>4. ASSUME NEW p \in AuthRequests, NEW r \in AuthRequests, p # r,
               \/ request'[p].at = "holds" /\ request'[r].at = "holds"
               \/ request'[p].at \in Spent /\ request'[r].at \in Spent
        PROVE  request'[p].nonce # request'[r].nonce
    BY <1>1, <1>5, <1>6, <2>4 DEF EnrollmentInv, HoldersAreSafe, Spent
  <2> QED
    BY <2>1, <2>2, <2>3, <2>4 DEF HoldersAreSafe
<1> QED
  BY <1>7, <1>8, <1>9 DEF EnrollmentInv

\* The refresh keeps what the request has spent, or ends it.
LEMMA RefreshStep ==
    ASSUME EnrollmentInv, NEW q \in AuthRequests, RefreshChallenge(q)
    PROVE  EnrollmentInv'
<1>1. UNCHANGED <<agentRow, challenge, throttle>> /\ agentRow' \in AgentState /\ request[q].at = "spent"
      /\ request \in [AuthRequests -> RequestRow]
  BY DEF RefreshChallenge, EnrollmentInv, EnrollmentTypeOK, RequestRow
<1>2. CASE request' = [request EXCEPT ![q] = NoRequest]
  BY <1>1, <1>2, NoRequestTyped, QuietStep DEF Spent
<1>3. CASE request' = [request EXCEPT ![q].at = "checked"]
  <2>1. /\ request' \in [AuthRequests -> RequestRow]
        /\ request'[q].at = "checked" /\ request'[q].nonce = request[q].nonce
        /\ \A p \in AuthRequests \ {q} : request'[p] = request[p]
    BY <1>1, <1>3 DEF RequestRow
  <2>2. EnrollmentTypeOK' /\ ThrottleCounts' /\ TokensAreSingle'
    BY <1>1, <2>1 DEF EnrollmentInv, EnrollmentTypeOK, ThrottleCounts, TokensAreSingle, RequestRow
  <2>3. HoldersAreSafe'
    BY <1>1, <2>1 DEF EnrollmentInv, HoldersAreSafe, Spent
  <2> QED
    BY <2>2, <2>3 DEF EnrollmentInv
<1> QED
  BY <1>2, <1>3 DEF RefreshChallenge, Closes

\* A token is issued for a challenge that is used up by it.
LEMMA IssueStep ==
    ASSUME EnrollmentInv, NEW q \in AuthRequests, IssueToken(q)
    PROVE  EnrollmentInv'
<1> DEFINE n == request[q].nonce
<1>1. /\ n \in Nonces /\ challenge[n].at \in Used /\ challenge[n].tokens = 0 /\ UNCHANGED <<agentRow, throttle>>
      /\ challenge \in [Nonces -> ChallengeState] /\ request[q].at \in Spent
  BY DEF IssueToken, EnrollmentInv, EnrollmentTypeOK, HoldersAreSafe, Spent
<1>2. challenge' = challenge \/ challenge' = [challenge EXCEPT ![n] = [challenge[n] EXCEPT !.tokens = 1]]
  BY <1>1 DEF IssueToken
<1>3. /\ challenge' \in [Nonces -> ChallengeState] /\ challenge'[n].tokens \in {0, 1} /\ challenge'[n].at \in Used
      /\ \A k \in Nonces \ {n} : challenge'[k] = challenge[k]
  BY <1>1, <1>2 DEF ChallengeState
<1>4. /\ request' \in [AuthRequests -> RequestRow]
      /\ request'[q] = NoRequest /\ \A p \in AuthRequests \ {q} : request'[p] = request[p]
  BY NoRequestTyped, RequestMoves DEF IssueToken, Closes, Spent
<1>5. EnrollmentTypeOK' /\ ThrottleCounts'
  BY <1>1, <1>3, <1>4 DEF EnrollmentInv, EnrollmentTypeOK, ThrottleCounts, RequestRow
<1>6. \A p \in AuthRequests \ {q} : request[p].at \in {"holds"} \cup Spent => request[p].nonce # n
  BY <1>1 DEF EnrollmentInv, HoldersAreSafe, Used
<1> HIDE DEF n
<1>7. TokensAreSingle'
  <2>1. \A k \in Nonces \ {n} : challenge'[k].tokens <= 1 /\ (challenge'[k].tokens = 1 => challenge'[k].at \in Used)
    BY <1>3 DEF EnrollmentInv, TokensAreSingle
  <2>2. challenge'[n].tokens <= 1 /\ (challenge'[n].tokens = 1 => challenge'[n].at \in Used)
    BY <1>3
  <2> QED
    BY <2>1, <2>2 DEF TokensAreSingle
<1>8. HoldersAreSafe'
  <2>1. \A p \in AuthRequests : request'[p].at \in {"token", "holds"} \cup Spent =>
            p # q /\ request'[p] = request[p]
    BY <1>4, NoRequestTyped DEF Spent
  <2>2. ASSUME NEW p \in AuthRequests, request'[p].at \in {"holds"} \cup Spent
        PROVE  request[p].nonce \in Nonces /\ challenge'[request[p].nonce] = challenge[request[p].nonce]
    BY <1>3, <1>6, <2>1, <2>2 DEF EnrollmentInv, HoldersAreSafe
  <2> QED
    BY <2>1, <2>2 DEF EnrollmentInv, HoldersAreSafe
<1> QED
  BY <1>5, <1>7, <1>8 DEF EnrollmentInv

\* Every step keeps the invariant.
LEMMA EnrollmentStepKeepsInv == EnrollmentInv /\ [NextEnrollment]_enrollmentVars => EnrollmentInv'
<1> SUFFICES ASSUME EnrollmentInv, [NextEnrollment]_enrollmentVars PROVE EnrollmentInv'
  OBVIOUS
<1>1. CASE UNCHANGED enrollmentVars
  BY <1>1 DEF enrollmentVars, EnrollmentInv, EnrollmentTypeOK, ThrottleCounts, TokensAreSingle, HoldersAreSafe
<1>2. ASSUME NEW q \in AuthRequests, RequestStep(q)
      PROVE  EnrollmentInv'
  BY <1>2, RowSteps, AskStep, SelectStep, CreateStep, HoldStep, ConsumeStep, RefreshStep, IssueStep DEF RequestStep
<1> QED
  BY <1>1, <1>2, ClockSteps DEF NextEnrollment

\* The inductive invariant of challenges, tokens and throttles.
THEOREM EnrollmentInvHolds == EnrollmentSpec => []EnrollmentInv
BY EnrollmentInitHolds, EnrollmentStepKeepsInv, PTL DEF EnrollmentSpec

\* consume_challenge and assert_challenge_allowed: one token per challenge and
\* at most agent_challenge_limit challenges per window, however many requests
\* run at once.
THEOREM ChallengesStayLimited == EnrollmentSpec => []ChallengesAreLimited
<1>1. EnrollmentInv => ChallengesAreLimited
  BY DEF EnrollmentInv, ThrottleCounts, TokensAreSingle, ChallengesAreLimited, Used
<1> QED
  BY <1>1, EnrollmentInvHolds, PTL

\* The rows of the agent, its challenges and throttle are well typed.
THEOREM EnrollmentTypeCorrect == EnrollmentSpec => []EnrollmentTypeOK
<1>1. EnrollmentInv => EnrollmentTypeOK
  BY DEF EnrollmentInv
<1> QED
  BY <1>1, EnrollmentInvHolds, PTL

HIDE EnrollmentAssumption

-----------------------------------------------------------------------------
(* Locality: a preference for an agent never blocks a network *)

USE LocalityAssumption

\* Every network that exists has a site, the agents it authorizes are placed
\* on that site, and the one it prefers is among them.
AgentsAreLocal ==
    \A n \in Networks :
        /\ network[n] = NoNetwork \/ network[n].site \in Sites
        /\ \A a \in network[n].agents : placed[a].site = network[n].site
        /\ network[n].preferred \in network[n].agents \cup {None}

LocalityInv == LocalityTypeOK /\ AgentsAreLocal

\* No site, no network, and no agent is placed.
LEMMA LocalityInitHolds == InitLocality => LocalityInv
BY DEF InitLocality, LocalityInv, LocalityTypeOK, AgentsAreLocal, Network, NoNetwork, Placed

\* create_site, archive_site and unarchive_site touch no network and no agent.
LEMMA SiteSteps ==
    ASSUME LocalityInv, NEW s \in Sites, CreateSite(s) \/ ArchiveSite(s) \/ UnarchiveSite(s)
    PROVE  LocalityInv'
BY DEF LocalityInv, LocalityTypeOK, AgentsAreLocal, CreateSite, ArchiveSite, UnarchiveSite

\* A new network prefers no agent.
LEMMA CreateNetworkStep ==
    ASSUME LocalityInv, NEW n \in Networks, NEW s \in Sites, CreateNetwork(n, s)
    PROVE  LocalityInv'
<1>1. /\ network[n] \in Network /\ network[n].agents = {} /\ network[n].preferred = None
      /\ network' = [network EXCEPT ![n] = [network[n] EXCEPT !.site = s]] /\ UNCHANGED <<site, placed>>
  <2>1. network[n] = NoNetwork /\ network[n] \in Network
    BY DEF CreateNetwork, LocalityInv, LocalityTypeOK
  <2>2. network[n].agents = {} /\ network[n].preferred = None
    BY <2>1 DEF NoNetwork
  <2>3. network' = [network EXCEPT ![n] = [network[n] EXCEPT !.site = s]] /\ UNCHANGED <<site, placed>>
    BY DEF CreateNetwork, LocalityInv, LocalityTypeOK
  <2> QED
    BY <2>1, <2>2, <2>3
<1>2. [network[n] EXCEPT !.site = s] \in Network
  BY <1>1 DEF Network
<1>3. LocalityTypeOK'
  BY <1>1, <1>2 DEF LocalityInv, LocalityTypeOK
<1>4. /\ network'[n].site = s /\ network'[n].agents = {} /\ network'[n].preferred = None
      /\ \A m \in Networks \ {n} : network'[m] = network[m]
  BY <1>1 DEF Network, LocalityInv, LocalityTypeOK
<1>5. AgentsAreLocal'
  BY <1>1, <1>4 DEF LocalityInv, LocalityTypeOK, AgentsAreLocal
<1> QED
  BY <1>3, <1>5 DEF LocalityInv

\* set_dispatch names only an authorized agent.
LEMMA UpdateNetworkStep ==
    ASSUME LocalityInv, NEW n \in Networks, NEW a \in LanAgents \cup {None}, UpdateNetwork(n, a)
    PROVE  LocalityInv'
<1>1. network' = [network EXCEPT ![n] = [network[n] EXCEPT !.preferred = a]] /\ UNCHANGED <<site, placed>>
  BY DEF UpdateNetwork, LocalityInv, LocalityTypeOK
<1>2. network[n] \in Network
  BY DEF LocalityInv, LocalityTypeOK
<1>3. LocalityTypeOK'
  BY <1>1, <1>2 DEF LocalityInv, LocalityTypeOK, Network
<1>4. a \in network[n].agents \cup {None} /\ network[n].site \in Sites
  BY DEF UpdateNetwork, MayPrefer, LocalityInv, AgentsAreLocal
<1>5. AgentsAreLocal'
  BY <1>1, <1>2, <1>4 DEF LocalityInv, LocalityTypeOK, AgentsAreLocal, Network
<1> QED
  BY <1>3, <1>5 DEF LocalityInv

\* A network is archived, or returns with the agents it had.
LEMMA ArchiveNetworkSteps ==
    ASSUME LocalityInv, NEW n \in Networks, ArchiveNetwork(n) \/ UnarchiveNetwork(n)
    PROVE  LocalityInv'
<1>1. PICK b \in BOOLEAN : network' = [network EXCEPT ![n] = [network[n] EXCEPT !.archived = b]]
  BY DEF ArchiveNetwork, UnarchiveNetwork, LocalityInv, LocalityTypeOK
<1>2. network[n] \in Network /\ network[n] # NoNetwork /\ UNCHANGED <<site, placed>>
  BY DEF LocalityInv, LocalityTypeOK, ArchiveNetwork, UnarchiveNetwork, NoNetwork
<1>3. LocalityTypeOK'
  BY <1>1, <1>2 DEF LocalityInv, LocalityTypeOK, Network
<1>4. AgentsAreLocal'
  BY <1>1, <1>2 DEF LocalityInv, LocalityTypeOK, AgentsAreLocal, Network
<1> QED
  BY <1>3, <1>4 DEF LocalityInv

\* authorize_agent refuses an agent of another site, deauthorize_agent drops
\* the preference with the authorization.
LEMMA ReplaceStep ==
    ASSUME LocalityInv, NEW n \in Networks, NEW desired \in SUBSET LanAgents,
           ReplaceAuthorizedAgents(n, desired)
    PROVE  LocalityInv'
<1> DEFINE row == [network[n] EXCEPT !.agents = desired, !.preferred = PreferredOf(network[n], desired)]
<1>1. network' = [network EXCEPT ![n] = row] /\ UNCHANGED <<site, placed>>
  BY DEF ReplaceAuthorizedAgents, LocalityInv, LocalityTypeOK
<1>2. network[n] \in Network /\ network[n].site \in Sites
  BY DEF LocalityInv, LocalityTypeOK, AgentsAreLocal, ReplaceAuthorizedAgents
<1>3. /\ row.site = network[n].site /\ row.agents = desired /\ row \in Network
      /\ row.preferred \in desired \cup {None}
  BY <1>2 DEF Network, PreferredOf
<1>4. LocalityTypeOK'
  BY <1>1, <1>3 DEF LocalityInv, LocalityTypeOK
<1>5. \A a \in desired : placed[a].site = network[n].site
  BY DEF ReplaceAuthorizedAgents, MayAuthorize, LocalityInv, AgentsAreLocal
<1>6. AgentsAreLocal'
  BY <1>1, <1>2, <1>3, <1>5 DEF LocalityInv, LocalityTypeOK, AgentsAreLocal
<1> QED
  BY <1>4, <1>6 DEF LocalityInv

\* An agent that is not placed yet is not authorized anywhere.
LEMMA CreateAgentStep ==
    ASSUME LocalityInv, NEW a \in LanAgents, NEW s \in Sites, CreateAgent(a, s)
    PROVE  LocalityInv'
<1>1. placed' = [placed EXCEPT ![a] = [placed[a] EXCEPT !.site = s]] /\ UNCHANGED <<site, network>>
  BY DEF CreateAgent, LocalityInv, LocalityTypeOK
<1>2. placed[a] \in Placed /\ placed[a].site = None
  BY DEF LocalityInv, LocalityTypeOK, CreateAgent
<1>3. LocalityTypeOK'
  BY <1>1, <1>2 DEF LocalityInv, LocalityTypeOK, Placed
<1>4. \A n \in Networks : a \notin network[n].agents
  BY <1>2 DEF LocalityInv, AgentsAreLocal, NoNetwork
<1>5. \A n \in Networks : network[n].agents \subseteq LanAgents
  BY DEF LocalityInv, LocalityTypeOK, Network
<1>6. AgentsAreLocal'
  BY <1>1, <1>4, <1>5 DEF LocalityInv, LocalityTypeOK, AgentsAreLocal
<1> QED
  BY <1>3, <1>6 DEF LocalityInv

\* An agent is revoked; the networks keep what they say of it.
LEMMA RevokeStep ==
    ASSUME LocalityInv, NEW a \in LanAgents, RevokePlaced(a)
    PROVE  LocalityInv'
<1>1. placed' = [placed EXCEPT ![a] = [placed[a] EXCEPT !.revoked = TRUE]] /\ UNCHANGED <<site, network>>
  BY DEF RevokePlaced, LocalityInv, LocalityTypeOK
<1>2. \A b \in LanAgents : placed'[b] \in Placed /\ placed'[b].site = placed[b].site
  BY <1>1 DEF LocalityInv, LocalityTypeOK, Placed
<1>3. LocalityTypeOK'
  BY <1>1, <1>2 DEF LocalityInv, LocalityTypeOK
<1>4. \A n \in Networks : network[n].agents \subseteq LanAgents
  BY DEF LocalityInv, LocalityTypeOK, Network
<1>5. AgentsAreLocal'
  BY <1>1, <1>2, <1>4 DEF LocalityInv, AgentsAreLocal
<1> QED
  BY <1>3, <1>5 DEF LocalityInv

\* drop_cross_site_authorizations keeps what the new site of the agent allows.
LEMMA MoveStep ==
    ASSUME LocalityInv, NEW a \in LanAgents, NEW s \in Sites, MoveAgent(a, s)
    PROVE  LocalityInv'
<1>1. placed' = [placed EXCEPT ![a] = [placed[a] EXCEPT !.site = s]]
  BY DEF MoveAgent, LocalityInv, LocalityTypeOK
<1>2. site' = site /\ network' = [n \in Networks |-> Dropped(network[n], a, s)]
  BY DEF MoveAgent
<1>3. ASSUME NEW n \in Networks
      PROVE  /\ network'[n] \in Network /\ network'[n].site = network[n].site
             /\ network'[n].agents \subseteq network[n].agents
             /\ network[n].site # s => a \notin network'[n].agents
             /\ network'[n].preferred \in network'[n].agents \cup {None}
             /\ network[n] = NoNetwork => network'[n] = NoNetwork
  <2>1. network[n] \in Network /\ network[n].preferred \in network[n].agents \cup {None}
    BY DEF LocalityInv, LocalityTypeOK, AgentsAreLocal
  <2>2. CASE network[n].site = s
    BY <1>2, <2>1, <2>2 DEF Dropped, Network
  <2>3. CASE network[n].site # s
    <3>1. network'[n] = [network[n] EXCEPT !.agents = network[n].agents \ {a},
                                           !.preferred = PreferredOf(network[n], network[n].agents \ {a})]
      BY <1>2, <2>1, <2>3 DEF Dropped, Network
    <3>2. network[n] = NoNetwork => network'[n] = NoNetwork
      <4> SUFFICES ASSUME network[n] = NoNetwork PROVE network'[n] = NoNetwork
        OBVIOUS
      <4>1. network[n].agents = {} /\ network[n].preferred = None /\ network[n].site = None /\ ~network[n].archived
        BY DEF NoNetwork
      <4>2. PreferredOf(network[n], network[n].agents \ {a}) = None /\ network[n].agents \ {a} = {}
        BY <4>1 DEF PreferredOf
      <4>3. network'[n] \in Network
        BY <2>1, <3>1, <4>2 DEF Network
      <4>4. /\ network'[n].site = None /\ network'[n].archived = FALSE
            /\ network'[n].agents = {} /\ network'[n].preferred = None
        BY <2>1, <3>1, <4>1, <4>2 DEF Network
      <4> QED
        BY <4>3, <4>4 DEF Network, NoNetwork
    <3>3. PreferredOf(network[n], network[n].agents \ {a}) \in (network[n].agents \ {a}) \cup {None}
      BY DEF PreferredOf
    <3> QED
      BY <2>1, <2>3, <3>1, <3>2, <3>3 DEF Network
  <2> QED
    BY <2>2, <2>3
<1>4. \A b \in LanAgents : placed'[b] \in Placed /\ placed'[b].site = IF b = a THEN s ELSE placed[b].site
  BY <1>1 DEF LocalityInv, LocalityTypeOK, Placed
<1>5. LocalityTypeOK'
  <2>1. network' \in [Networks -> Network]
    BY <1>2, <1>3
  <2>2. placed' \in [LanAgents -> Placed]
    BY <1>1, <1>4 DEF LocalityInv, LocalityTypeOK
  <2> QED
    BY <1>2, <2>1, <2>2 DEF LocalityInv, LocalityTypeOK
<1>6. \A n \in Networks : network[n].agents \subseteq LanAgents
  BY DEF LocalityInv, LocalityTypeOK, Network
<1>7. AgentsAreLocal'
  BY <1>3, <1>4, <1>6 DEF LocalityInv, AgentsAreLocal
<1> QED
  BY <1>5, <1>7 DEF LocalityInv

\* Every step keeps the invariant.
LEMMA LocalityStepKeepsInv == LocalityInv /\ [NextLocality]_localityVars => LocalityInv'
<1> SUFFICES ASSUME LocalityInv, [NextLocality]_localityVars PROVE LocalityInv'
  OBVIOUS
<1>1. CASE UNCHANGED localityVars
  BY <1>1 DEF localityVars, LocalityInv, LocalityTypeOK, AgentsAreLocal
<1>2. CASE NextLocality
  BY <1>2, SiteSteps, CreateNetworkStep, UpdateNetworkStep, ArchiveNetworkSteps, ReplaceStep,
     CreateAgentStep, RevokeStep, MoveStep DEF NextLocality
<1> QED
  BY <1>1, <1>2

\* The inductive invariant of sites, networks and agents (locality.py).
THEOREM LocalityInvHolds == LocalitySpec => []LocalityInv
BY LocalityInitHolds, LocalityStepKeepsInv, PTL DEF LocalitySpec

\* The invariant implies the property the run checks.
LEMMA PreferenceFollows == LocalityInv => PreferenceIsEligible
<1> SUFFICES ASSUME LocalityInv, NEW n \in Networks, CommonEligible({n}) # {},
                    \A a \in PreferredAmong({n}) : ~placed[a].revoked
             PROVE  DispatchResolves({n})
  BY DEF PreferenceIsEligible
<1>1. PreferredAmong({n}) = {network[n].preferred} \ {None}
  BY DEF PreferredAmong
<1>2. network[n].preferred \in network[n].agents \cup {None} /\ network[n].agents \subseteq LanAgents
  BY DEF LocalityInv, LocalityTypeOK, AgentsAreLocal, Network
<1>3. CASE network[n].preferred = None
  <2>1. PreferredAmong({n}) = {}
    BY <1>1, <1>3
  <2>2. Cardinality({}) = 0
    BY FS_EmptySet
  <2>3. Cardinality(PreferredAmong({n})) <= 1
    BY <2>1, <2>2
  <2> QED
    BY <2>1, <2>3 DEF DispatchResolves
<1>4. CASE network[n].preferred # None
  <2> DEFINE a == network[n].preferred
  <2>1. PreferredAmong({n}) = {a}
    BY <1>1, <1>4
  <2>2. a \in CommonEligible({n})
    BY <1>2, <1>4, <2>1 DEF CommonEligible, LocalityInv, AgentsAreLocal
  <2>3. Cardinality({a}) = 1
    BY FS_Singleton
  <2> QED
    BY <2>1, <2>2, <2>3 DEF DispatchResolves
<1> QED
  BY <1>3, <1>4

\* resolve_dispatch_policy (scan_dispatch.py) never meets the preference for an
\* agent that was moved or deauthorized, whatever admins did before.
THEOREM PreferencesAreEligible == LocalitySpec => []PreferenceIsEligible
BY LocalityInvHolds, PreferenceFollows, PTL

\* Every reachable row of sites, networks and agents is well typed.
THEOREM LocalityTypeCorrect == LocalitySpec => []LocalityTypeOK
<1>1. LocalityInv => LocalityTypeOK
  BY DEF LocalityInv
<1> QED
  BY <1>1, LocalityInvHolds, PTL

HIDE LocalityAssumption

-----------------------------------------------------------------------------
(* StaffAccess: a challenge takes a bounded number of guesses *)

USE StaffAssumption

FailedLogins == {l \in Logins : login[l] = "failed"}
AllowedLogins == {l \in Logins : login[l] = "allowed"}

\* While the name is open, every wrong guess is counted or about to be; from
\* the lockout on, only the requests that were allowed before it may guess.
\* A lockout that ended leaves the count over the limit.
GuessesAreCounted ==
    /\ ~guard.locked => guard.guessed <= (IF guard.failures <= FailureLimit THEN guard.failures ELSE 0)
                                          + Cardinality(FailedLogins)
    /\ guard.locked => guard.guessed + Cardinality(AllowedLogins) <= FailureLimit + Cardinality(Logins)

\* A request to change a user read grants of tenants that exist.
ReadGrantsExist == \A e \in Edits : edit[e].read.grants \subseteq tenants

StaffInv == StaffTypeOK /\ ReadGrantsExist /\ GuessesAreCounted

StaffSpec == InitStaff /\ [][NextStaff]_staffVars

GuardRow == [failures : Nat, locked : BOOLEAN, attempts : Nat, ipLocked : BOOLEAN, guessed : Nat]

\* Failed and allowed logins are counted apart, and never beyond the logins.
LEMMA LoginCounts ==
    /\ IsFiniteSet(FailedLogins) /\ Cardinality(FailedLogins) \in Nat
    /\ IsFiniteSet(AllowedLogins) /\ Cardinality(AllowedLogins) \in Nat
    /\ Cardinality(Logins) \in Nat
    /\ Cardinality(FailedLogins) + Cardinality(AllowedLogins) <= Cardinality(Logins)
<1>1. FailedLogins \subseteq Logins /\ AllowedLogins \subseteq Logins /\ FailedLogins \cap AllowedLogins = {}
  BY DEF FailedLogins, AllowedLogins
<1>2. IsFiniteSet(FailedLogins) /\ IsFiniteSet(AllowedLogins) /\ IsFiniteSet(FailedLogins \cup AllowedLogins)
  BY <1>1, FS_Subset, FS_Union
<1>3. Cardinality(FailedLogins \cup AllowedLogins) <= Cardinality(Logins)
  <2>1. FailedLogins \cup AllowedLogins \in SUBSET Logins
    BY <1>1
  <2> QED
    BY <2>1, FS_Subset
<1>4. Cardinality(FailedLogins \cap AllowedLogins) = 0
  BY <1>1, FS_EmptySet
<1>5. Cardinality(FailedLogins \cup AllowedLogins) =
         Cardinality(FailedLogins) + Cardinality(AllowedLogins) - Cardinality(FailedLogins \cap AllowedLogins)
  BY <1>2, FS_Union
<1>6. Cardinality(FailedLogins) \in Nat /\ Cardinality(AllowedLogins) \in Nat /\ Cardinality(Logins) \in Nat
  BY <1>2, FS_CardinalityType
<1> QED
  BY <1>2, <1>3, <1>4, <1>5, <1>6

\* The same after the step.
LEMMA LoginCountsNext ==
    /\ Cardinality(FailedLogins') \in Nat /\ Cardinality(AllowedLogins') \in Nat
<1>1. IsFiniteSet(FailedLogins') /\ IsFiniteSet(AllowedLogins')
  BY FS_Subset DEF FailedLogins, AllowedLogins
<1> QED
  BY <1>1, FS_CardinalityType

\* The size of a set after an element is put in or taken out.
LEMMA OneElement ==
    ASSUME NEW S, IsFiniteSet(S), NEW x
    PROVE  /\ x \in S => Cardinality(S \cup {x}) = Cardinality(S) /\ Cardinality(S \ {x}) = Cardinality(S) - 1
           /\ x \notin S => Cardinality(S \cup {x}) = Cardinality(S) + 1 /\ Cardinality(S \ {x}) = Cardinality(S)
<1>1. CASE x \in S
  <2>1. S \cup {x} = S
    BY <1>1
  <2> QED
    BY <1>1, <2>1, FS_RemoveElement
<1>2. CASE x \notin S
  <2>1. S \ {x} = S
    BY <1>2
  <2> QED
    BY <1>2, <2>1, FS_AddElement
<1> QED
  BY <1>1, <1>2

\* One request moves on, and the others stay.
LEMMA LoginMoves ==
    ASSUME StaffTypeOK, NEW l \in Logins, NEW at \in {"free", "counted", "allowed", "failed", "right"},
           login' = [login EXCEPT ![l] = at]
    PROVE  /\ login' \in [Logins -> {"free", "counted", "allowed", "failed", "right"}]
           /\ at = "failed" /\ login[l] # "failed" => Cardinality(FailedLogins') = Cardinality(FailedLogins) + 1
           /\ at # "failed" /\ login[l] = "failed" => Cardinality(FailedLogins') = Cardinality(FailedLogins) - 1
           /\ at # "failed" /\ login[l] # "failed" => Cardinality(FailedLogins') = Cardinality(FailedLogins)
           /\ at # "allowed" /\ login[l] = "allowed" => Cardinality(AllowedLogins') = Cardinality(AllowedLogins) - 1
           /\ at # "allowed" /\ login[l] # "allowed" => Cardinality(AllowedLogins') = Cardinality(AllowedLogins)
<1>1. /\ login' \in [Logins -> {"free", "counted", "allowed", "failed", "right"}]
      /\ login'[l] = at /\ \A k \in Logins \ {l} : login'[k] = login[k]
  BY DEF StaffTypeOK
<1>2. IsFiniteSet(FailedLogins) /\ IsFiniteSet(AllowedLogins)
  BY LoginCounts
<1>3. /\ (l \in FailedLogins <=> login[l] = "failed") /\ (l \in AllowedLogins <=> login[l] = "allowed")
      /\ at = "failed" => FailedLogins' = FailedLogins \cup {l}
      /\ at # "failed" => FailedLogins' = FailedLogins \ {l}
      /\ at # "allowed" => AllowedLogins' = AllowedLogins \ {l}
  BY <1>1 DEF FailedLogins, AllowedLogins
<1>4. /\ l \in FailedLogins => Cardinality(FailedLogins \ {l}) = Cardinality(FailedLogins) - 1
      /\ l \notin FailedLogins => Cardinality(FailedLogins \cup {l}) = Cardinality(FailedLogins) + 1
                                  /\ Cardinality(FailedLogins \ {l}) = Cardinality(FailedLogins)
  BY <1>2, OneElement
<1>5. /\ l \in AllowedLogins => Cardinality(AllowedLogins \ {l}) = Cardinality(AllowedLogins) - 1
      /\ l \notin AllowedLogins => Cardinality(AllowedLogins \ {l}) = Cardinality(AllowedLogins)
  BY <1>2, OneElement
<1>6. at = "failed" /\ login[l] # "failed" => Cardinality(FailedLogins') = Cardinality(FailedLogins) + 1
  BY <1>3, <1>4
<1>7. at # "failed" /\ login[l] = "failed" => Cardinality(FailedLogins') = Cardinality(FailedLogins) - 1
  BY <1>3, <1>4
<1>8. at # "failed" /\ login[l] # "failed" => Cardinality(FailedLogins') = Cardinality(FailedLogins)
  BY <1>3, <1>4
<1>9. at # "allowed" /\ login[l] = "allowed" => Cardinality(AllowedLogins') = Cardinality(AllowedLogins) - 1
  BY <1>3, <1>5
<1>10. at # "allowed" /\ login[l] # "allowed" => Cardinality(AllowedLogins') = Cardinality(AllowedLogins)
  BY <1>3, <1>5
<1> QED
  BY <1>1, <1>6, <1>7, <1>8, <1>9, <1>10

\* No account is locked and nothing was tried.
LEMMA StaffInitHolds == InitStaff => StaffInv
<1> SUFFICES ASSUME InitStaff PROVE StaffInv
  OBVIOUS
<1>1. NewViewer \in Account /\ NewViewer.grants = {}
  BY DEF NewViewer, Account, Roles
<1>2. StaffTypeOK /\ ReadGrantsExist
  BY <1>1 DEF InitStaff, StaffTypeOK, ReadGrantsExist
<1>3. GuessesAreCounted
  BY LoginCounts DEF InitStaff, GuessesAreCounted
<1> QED
  BY <1>2, <1>3 DEF StaffInv

\* Tenants and accounts do not touch the throttle.
LEMMA AccountSteps ==
    ASSUME StaffInv, (\E t \in StaffTenants : CreateTenant(t)) \/ (\E e \in Edits : EditRead(e) \/ UpdateUser(e)) \/ AccessExpires
    PROVE  StaffInv'
<1>1. UNCHANGED <<guard, login>>
  BY DEF CreateTenant, EditRead, UpdateUser, AccessExpires
<1>2. GuessesAreCounted'
  <2>1. FailedLogins' = FailedLogins /\ AllowedLogins' = AllowedLogins
    BY <1>1 DEF FailedLogins, AllowedLogins
  <2> QED
    BY <1>1, <2>1 DEF StaffInv, GuessesAreCounted
<1>3. /\ account \in Account /\ tenants \in SUBSET StaffTenants /\ account.grants \subseteq tenants
      /\ edit \in [Edits -> [open : BOOLEAN, read : Account]] /\ \A e \in Edits : edit[e].read.grants \subseteq tenants
  BY DEF StaffInv, StaffTypeOK, ReadGrantsExist
<1>4. NewViewer \in Account /\ NewViewer.grants = {}
  BY DEF NewViewer, Account, Roles
<1>5. ASSUME NEW t \in StaffTenants, CreateTenant(t) PROVE StaffTypeOK' /\ ReadGrantsExist'
  BY <1>1, <1>3, <1>5 DEF CreateTenant, StaffInv, StaffTypeOK, ReadGrantsExist
<1>6. ASSUME NEW e \in Edits, EditRead(e) PROVE StaffTypeOK' /\ ReadGrantsExist'
  <2> DEFINE row == [open |-> TRUE, read |-> account]
  <2>1. edit' = [edit EXCEPT ![e] = row] /\ UNCHANGED <<account, tenants>>
    BY <1>6 DEF EditRead
  <2>2. row \in [open : BOOLEAN, read : Account] /\ row.read.grants \subseteq tenants
    BY <1>3
  <2> HIDE DEF row
  <2>3. edit' \in [Edits -> [open : BOOLEAN, read : Account]] /\ \A d \in Edits : edit'[d].read.grants \subseteq tenants
    BY <1>3, <2>1, <2>2
  <2> QED
    BY <1>1, <2>1, <2>3 DEF StaffInv, StaffTypeOK, ReadGrantsExist
<1>7. ASSUME NEW e \in Edits, UpdateUser(e) PROVE StaffTypeOK' /\ ReadGrantsExist'
  <2> DEFINE row == [open |-> FALSE, read |-> NewViewer]
  <2>1. edit' = [edit EXCEPT ![e] = row] /\ tenants' = tenants
    BY <1>7 DEF UpdateUser
  <2>2. row \in [open : BOOLEAN, read : Account] /\ row.read.grants \subseteq tenants
    BY <1>4
  <2> HIDE DEF row
  <2>3. edit' \in [Edits -> [open : BOOLEAN, read : Account]] /\ \A d \in Edits : edit'[d].read.grants \subseteq tenants
    BY <1>3, <2>1, <2>2
  <2>4. PICK role \in Roles, active \in BOOLEAN, named \in BOOLEAN, all \in BOOLEAN,
             grants \in SUBSET tenants, expires \in {"never", "later", "passed"} :
          LET read == edit[e].read
              scope == ScopeAfter(read, role, named, [all |-> all, expires |-> expires, grants |-> grants])
              touched == named \/ role # read.role \/ role # "viewer"
          IN /\ named => role = "viewer" /\ ScopeIsValid(all, grants)
             /\ ~named => ~all /\ grants = {} /\ expires = "never"
             /\ account' = [role |-> Changed(read.role, account.role, role),
                         active |-> Changed(read.active, account.active, active),
                         all |-> Changed(read.all, account.all, scope.all),
                         expires |-> Changed(read.expires, account.expires, scope.expires),
                         grants |-> IF touched THEN scope.grants ELSE account.grants]
    BY <1>7 DEF UpdateUser
  <2> DEFINE read == edit[e].read
  <2> DEFINE asked == [all |-> all, expires |-> expires, grants |-> grants]
  <2> DEFINE scope == ScopeAfter(read, role, named, asked)
  <2> DEFINE ScopeRow == [all : BOOLEAN, expires : {"never", "later", "passed"}, grants : SUBSET tenants]
  <2>5. read \in Account /\ read.grants \subseteq tenants
    BY <1>3
  <2>6. scope \in ScopeRow
    BY <2>5 DEF ScopeAfter, NoScope, Account
  <2> DEFINE touched == named \/ role # read.role \/ role # "viewer"
  <2>7. account' = [role |-> Changed(read.role, account.role, role),
                    active |-> Changed(read.active, account.active, active),
                    all |-> Changed(read.all, account.all, scope.all),
                    expires |-> Changed(read.expires, account.expires, scope.expires),
                    grants |-> IF touched THEN scope.grants ELSE account.grants]
    BY <2>4
  <2> HIDE DEF read, scope, touched, asked
  <2>8. account' \in Account /\ account'.grants \subseteq tenants
    <3>1. account'.grants \subseteq tenants /\ account'.grants \subseteq StaffTenants
      BY <1>3, <2>6, <2>7
    <3>2. account'.role \in Roles /\ account'.expires \in {"never", "later", "passed"}
      BY <1>3, <2>6, <2>7 DEF Changed, Account
    <3>3. Changed(read.active, account.active, active) \in BOOLEAN /\ Changed(read.all, account.all, scope.all) \in BOOLEAN
      BY <1>3, <2>6 DEF Changed, Account
    <3> QED
      BY <2>7, <3>1, <3>2, <3>3 DEF Account
  <2> QED
    BY <1>1, <2>1, <2>3, <2>8 DEF StaffInv, StaffTypeOK, ReadGrantsExist
<1>8. ASSUME AccessExpires PROVE StaffTypeOK' /\ ReadGrantsExist'
  <2>1. account' = [account EXCEPT !.expires = "passed"] /\ UNCHANGED <<tenants, edit>>
    BY <1>8 DEF AccessExpires
  <2>2. account' \in Account /\ account'.grants = account.grants
    BY <1>3, <2>1 DEF Account
  <2> QED
    BY <1>1, <1>3, <2>1, <2>2 DEF StaffInv, StaffTypeOK, ReadGrantsExist
<1> QED
  BY <1>2, <1>5, <1>6, <1>7, <1>8 DEF StaffInv

\* A step of the throttle or of a login.
LEMMA ThrottleKeepsTypes ==
    ASSUME StaffInv, UNCHANGED <<account, tenants, edit>>, guard' \in GuardRow,
           login' \in [Logins -> {"free", "counted", "allowed", "failed", "right"}], GuessesAreCounted'
    PROVE  StaffInv'
BY DEF StaffInv, StaffTypeOK, ReadGrantsExist, GuardRow

\* The steps of one login, from the attempt that is counted to its verdict.
LEMMA LoginSteps ==
    ASSUME StaffInv, NEW l \in Logins,
           CountAttempt(l) \/ AllowLogin(l) \/ VerifyPassword(l) \/ RecordFailure(l) \/ RecordSuccess(l)
    PROVE  StaffInv'
<1>0. /\ guard \in GuardRow /\ guard.failures \in Nat /\ guard.guessed \in Nat /\ guard.attempts \in Nat
      /\ login \in [Logins -> {"free", "counted", "allowed", "failed", "right"}] /\ StaffTypeOK
      /\ GuessesAreCounted /\ FailureLimit \in Nat
  BY DEF StaffInv, StaffTypeOK, GuardRow
<1>1. /\ Cardinality(FailedLogins) \in Nat /\ Cardinality(AllowedLogins) \in Nat /\ Cardinality(Logins) \in Nat
      /\ Cardinality(FailedLogins) + Cardinality(AllowedLogins) <= Cardinality(Logins)
  BY LoginCounts
<1>2. UNCHANGED <<account, tenants, edit>>
  BY DEF CountAttempt, AllowLogin, VerifyPassword, RecordFailure, RecordSuccess
<1>3. CASE CountAttempt(l)
  <2>1. CASE UNCHANGED <<guard, login>>
    <3>1. FailedLogins' = FailedLogins /\ AllowedLogins' = AllowedLogins
      BY <2>1 DEF FailedLogins, AllowedLogins
    <3> QED
      BY <1>0, <1>2, <2>1, <3>1, ThrottleKeepsTypes DEF GuessesAreCounted
  <2>2. CASE ~UNCHANGED <<guard, login>>
    <3> DEFINE over == guard.attempts + 1 > IpLimit
    <3>1. /\ guard' = [guard EXCEPT !.attempts = guard.attempts + 1, !.ipLocked = over]
          /\ login[l] = "free"
          /\ login' = login \/ login' = [login EXCEPT ![l] = "counted"]
      BY <1>3, <2>2 DEF CountAttempt
    <3>2. over \in BOOLEAN /\ guard.attempts + 1 \in Nat
      BY <1>0
    <3> HIDE DEF over
    <3>3. /\ guard' \in GuardRow /\ guard'.failures = guard.failures /\ guard'.locked = guard.locked
          /\ guard'.guessed = guard.guessed
      BY <1>0, <3>1, <3>2 DEF GuardRow
    <3>4. login' \in [Logins -> {"free", "counted", "allowed", "failed", "right"}]
          /\ FailedLogins' = FailedLogins /\ AllowedLogins' = AllowedLogins
      BY <1>0, <3>1 DEF FailedLogins, AllowedLogins
    <3>5. GuessesAreCounted'
      BY <1>0, <3>3, <3>4 DEF GuessesAreCounted
    <3> QED
      BY <1>2, <3>3, <3>4, <3>5, ThrottleKeepsTypes
  <2> QED
    BY <2>1, <2>2
<1>4. CASE AllowLogin(l)
  <2>1. login[l] = "counted" /\ guard' = guard /\ login' = [login EXCEPT ![l] = IF guard.locked THEN "free" ELSE "allowed"]
    BY <1>4 DEF AllowLogin
  <2>2. CASE guard.locked
    <3>1. /\ login' \in [Logins -> {"free", "counted", "allowed", "failed", "right"}]
          /\ Cardinality(AllowedLogins') = Cardinality(AllowedLogins)
      BY <1>0, <1>1, <2>1, <2>2, LoginMoves
    <3> QED
      BY <1>0, <1>2, <2>1, <2>2, <3>1, ThrottleKeepsTypes DEF GuessesAreCounted
  <2>3. CASE ~guard.locked
    <3>1. /\ login' \in [Logins -> {"free", "counted", "allowed", "failed", "right"}]
          /\ Cardinality(FailedLogins') = Cardinality(FailedLogins)
      BY <1>0, <1>1, <2>1, <2>3, LoginMoves
    <3> QED
      BY <1>0, <1>2, <2>1, <2>3, <3>1, ThrottleKeepsTypes DEF GuessesAreCounted
  <2> QED
    BY <2>2, <2>3
<1>5. CASE VerifyPassword(l)
  <2>1. PICK right \in BOOLEAN :
          /\ login' = [login EXCEPT ![l] = IF ~account.active \/ ~right THEN "failed"
                                           ELSE IF Usable(account) THEN "right" ELSE "free"]
          /\ guard' = [guard EXCEPT !.guessed = IF account.active /\ ~right THEN @ + 1 ELSE @]
    BY <1>5 DEF VerifyPassword
  <2> DEFINE at == IF ~account.active \/ ~right THEN "failed" ELSE IF Usable(account) THEN "right" ELSE "free"
  <2> DEFINE n == IF account.active /\ ~right THEN guard.guessed + 1 ELSE guard.guessed
  <2>2. /\ login[l] = "allowed" /\ at \in {"free", "failed", "right"}
        /\ n \in Nat /\ n <= guard.guessed + 1 /\ (n # guard.guessed => at = "failed")
    BY <1>0, <1>5 DEF VerifyPassword
  <2>3. login' = [login EXCEPT ![l] = at] /\ guard' = [guard EXCEPT !.guessed = n]
    BY <2>1
  <2> HIDE DEF at, n
  <2>4. /\ guard' \in GuardRow /\ guard'.failures = guard.failures /\ guard'.locked = guard.locked /\ guard'.guessed = n
    BY <1>0, <2>2, <2>3 DEF GuardRow
  <2>5. /\ login' \in [Logins -> {"free", "counted", "allowed", "failed", "right"}]
        /\ Cardinality(FailedLogins') = Cardinality(FailedLogins) + (IF at = "failed" THEN 1 ELSE 0)
        /\ Cardinality(AllowedLogins') = Cardinality(AllowedLogins) - 1
    <3>1. at \in {"free", "counted", "allowed", "failed", "right"} /\ at # "allowed" /\ login[l] # "failed"
      BY <2>2
    <3>2. CASE at = "failed"
      BY <1>0, <2>2, <2>3, <3>1, <3>2, LoginMoves
    <3>3. CASE at # "failed"
      <4>1. /\ login' \in [Logins -> {"free", "counted", "allowed", "failed", "right"}]
            /\ Cardinality(FailedLogins') = Cardinality(FailedLogins)
            /\ Cardinality(AllowedLogins') = Cardinality(AllowedLogins) - 1
        BY <1>0, <2>2, <2>3, <3>1, <3>3, LoginMoves
      <4> QED
        BY <1>1, <3>3, <4>1
    <3> QED
      BY <3>2, <3>3
  <2>6. GuessesAreCounted'
    <3>1. ASSUME ~guard.locked
          PROVE  n <= (IF guard.failures <= FailureLimit THEN guard.failures ELSE 0) + Cardinality(FailedLogins')
      BY <1>0, <1>1, <2>2, <2>5, <3>1 DEF GuessesAreCounted
    <3>2. ASSUME guard.locked PROVE n + Cardinality(AllowedLogins') <= FailureLimit + Cardinality(Logins)
      BY <1>0, <1>1, <2>2, <2>5, <3>2 DEF GuessesAreCounted
    <3> QED
      BY <2>4, <3>1, <3>2 DEF GuessesAreCounted
  <2> QED
    BY <1>2, <2>4, <2>5, <2>6, ThrottleKeepsTypes
<1>6. CASE RecordFailure(l)
  <2>1. login[l] = "failed" /\ login' = [login EXCEPT ![l] = "free"]
    BY <1>6 DEF RecordFailure
  <2>2. /\ login' \in [Logins -> {"free", "counted", "allowed", "failed", "right"}]
        /\ Cardinality(FailedLogins') = Cardinality(FailedLogins) - 1
        /\ Cardinality(AllowedLogins') = Cardinality(AllowedLogins)
    BY <1>0, <1>1, <2>1, LoginMoves
  <2>3. CASE guard.locked
    <3>1. guard' = guard
      BY <1>6, <2>3 DEF RecordFailure
    <3> QED
      BY <1>0, <1>2, <2>2, <2>3, <3>1, ThrottleKeepsTypes DEF GuessesAreCounted
  <2>4. CASE ~guard.locked
    <3> DEFINE n == IF guard.failures > FailureLimit + 1 THEN guard.failures ELSE guard.failures + 1
    <3> DEFINE over == Locks(guard.failures + 1)
    <3>1. guard' = [guard EXCEPT !.failures = n, !.locked = over]
      BY <1>6, <2>4 DEF RecordFailure
    <3>2. n \in Nat /\ over \in BOOLEAN /\ (over <=> guard.failures >= FailureLimit)
          /\ (~over => n = guard.failures + 1 /\ n <= FailureLimit)
      BY <1>0 DEF Locks
    <3> HIDE DEF n, over
    <3>3. guard' \in GuardRow /\ guard'.failures = n /\ guard'.locked = over /\ guard'.guessed = guard.guessed
      BY <1>0, <3>1, <3>2 DEF GuardRow
    <3>4. guard.guessed <= (IF guard.failures <= FailureLimit THEN guard.failures ELSE 0) + Cardinality(FailedLogins)
      BY <1>0, <2>4 DEF GuessesAreCounted
    <3>5. ~over => guard.guessed <= n + Cardinality(FailedLogins')
      BY <1>0, <1>1, <2>2, <3>2, <3>4
    <3>6. over => guard.guessed + Cardinality(AllowedLogins') <= FailureLimit + Cardinality(Logins)
      BY <1>0, <1>1, <2>2, <3>2, <3>4
    <3>7. GuessesAreCounted'
      BY <3>2, <3>3, <3>5, <3>6 DEF GuessesAreCounted
    <3> QED
      BY <1>2, <2>2, <3>3, <3>7, ThrottleKeepsTypes
  <2> QED
    BY <2>3, <2>4
<1>7. CASE RecordSuccess(l)
  <2>1. /\ login' = [login EXCEPT ![l] = "free"]
        /\ guard' = [guard EXCEPT !.failures = 0, !.locked = FALSE, !.guessed = 0]
    BY <1>7 DEF RecordSuccess
  <2>2. guard' \in GuardRow /\ guard'.failures = 0 /\ ~guard'.locked /\ guard'.guessed = 0
    BY <1>0, <2>1 DEF GuardRow
  <2>3. login' \in [Logins -> {"free", "counted", "allowed", "failed", "right"}]
    BY <1>0, <2>1
  <2>4. GuessesAreCounted'
    BY <1>0, <2>2, LoginCountsNext DEF GuessesAreCounted
  <2> QED
    BY <1>2, <2>2, <2>3, <2>4, ThrottleKeepsTypes
<1> QED
  BY <1>3, <1>4, <1>5, <1>6, <1>7

\* A window passes or a lock ends: the counts start again.
LEMMA WindowSteps ==
    ASSUME StaffInv, FailureWindowPasses \/ LoginLockEnds \/ AddressWindowPasses
    PROVE  StaffInv'
<1>0. /\ guard \in GuardRow /\ guard.failures \in Nat
      /\ login \in [Logins -> {"free", "counted", "allowed", "failed", "right"}]
      /\ GuessesAreCounted
  BY DEF StaffInv, StaffTypeOK, GuardRow
<1>1. UNCHANGED <<account, tenants, edit, login>>
  BY DEF FailureWindowPasses, LoginLockEnds, AddressWindowPasses
<1>2. FailedLogins' = FailedLogins /\ AllowedLogins' = AllowedLogins /\ Cardinality(FailedLogins) \in Nat
  BY <1>1, LoginCounts DEF FailedLogins, AllowedLogins
<1>3. CASE FailureWindowPasses
  <2>1. ~guard.locked /\ guard' = [guard EXCEPT !.failures = 0, !.guessed = 0]
    BY <1>3 DEF FailureWindowPasses
  <2>2. guard' \in GuardRow /\ guard'.failures = 0 /\ guard'.guessed = 0 /\ ~guard'.locked
    BY <1>0, <2>1 DEF GuardRow
  <2>3. GuessesAreCounted'
    BY <1>2, <2>2 DEF GuessesAreCounted
  <2> QED
    BY <1>0, <1>1, <2>2, <2>3, ThrottleKeepsTypes
<1>4. CASE LoginLockEnds
  <2>1. guard' = [guard EXCEPT !.locked = FALSE, !.guessed = 0]
    BY <1>4 DEF LoginLockEnds
  <2>2. guard' \in GuardRow /\ guard'.failures = guard.failures /\ guard'.guessed = 0 /\ ~guard'.locked
    BY <1>0, <2>1 DEF GuardRow
  <2>3. GuessesAreCounted'
    BY <1>0, <1>2, <2>2 DEF GuessesAreCounted
  <2> QED
    BY <1>0, <1>1, <2>2, <2>3, ThrottleKeepsTypes
<1>5. CASE AddressWindowPasses
  <2>1. guard' = [guard EXCEPT !.attempts = 0, !.ipLocked = FALSE]
    BY <1>5 DEF AddressWindowPasses
  <2>2. /\ guard' \in GuardRow /\ guard'.failures = guard.failures /\ guard'.guessed = guard.guessed
        /\ guard'.locked = guard.locked
    BY <1>0, <2>1 DEF GuardRow
  <2>3. GuessesAreCounted'
    BY <1>0, <1>2, <2>2 DEF GuessesAreCounted
  <2> QED
    BY <1>0, <1>1, <2>2, <2>3, ThrottleKeepsTypes
<1> QED
  BY <1>3, <1>4, <1>5

\* Every step keeps the invariant.
LEMMA StaffStepKeepsInv == StaffInv /\ [NextStaff]_staffVars => StaffInv'
<1> SUFFICES ASSUME StaffInv, [NextStaff]_staffVars PROVE StaffInv'
  OBVIOUS
<1>1. CASE NextStaff
  BY <1>1, AccountSteps, LoginSteps, WindowSteps DEF NextStaff
<1>2. CASE UNCHANGED staffVars
  BY <1>2 DEF staffVars, StaffInv, StaffTypeOK, ReadGrantsExist, GuessesAreCounted, FailedLogins, AllowedLogins
<1> QED
  BY <1>1, <1>2

-----------------------------------------------------------------------------
\* The invariant of the login throttle, with the types of StaffAccess.
THEOREM StaffInvHolds == StaffSpec => []StaffInv
<1> QED
  BY StaffInitHolds, StaffStepKeepsInv, PTL DEF StaffSpec

\* Between two resets at most login_failure_limit wrong passwords are verified
\* and one per login under way, for any number of concurrent logins.
THEOREM GuessesStayBounded == StaffSpec => []GuessesAreBounded
<1>1. StaffInv => GuessesAreBounded
  <2> SUFFICES ASSUME StaffInv PROVE GuessesAreBounded
    OBVIOUS
  <2>1. /\ Cardinality(FailedLogins) \in Nat /\ Cardinality(AllowedLogins) \in Nat /\ Cardinality(Logins) \in Nat
        /\ Cardinality(FailedLogins) + Cardinality(AllowedLogins) <= Cardinality(Logins)
    BY LoginCounts
  <2>2. guard.failures \in Nat /\ guard.guessed \in Nat /\ GuessesAreCounted
    BY DEF StaffInv, StaffTypeOK
  <2>3. CASE guard.locked
    BY <2>1, <2>2, <2>3 DEF GuessesAreCounted, GuessesAreBounded
  <2>4. CASE ~guard.locked
    BY <2>1, <2>2, <2>4 DEF GuessesAreCounted, GuessesAreBounded
  <2> QED
    BY <2>3, <2>4
<1> QED
  BY StaffInvHolds, <1>1, PTL

HIDE StaffAssumption

-----------------------------------------------------------------------------
(* RunTargets: what was excluded or is prohibited is never scanned *)

USE TargetAssumption

\* What the payload leaves after its own exclusions is not forbidden, and
\* the worker scans no more than that.
PayloadIsSafe ==
    /\ (payload.targets \ payload.excluded) \cap payload.forbidden = {}
    /\ payload.scanned \subseteq payload.targets \ payload.excluded

TargetInv == TargetTypeOK /\ PayloadIsSafe

\* No run, no payload, no exclusion.
LEMMA TargetInitHolds == InitTargets => TargetInv
BY DEF InitTargets, TargetInv, TargetTypeOK, PayloadIsSafe, NoJob, NoPayload, NoExclusion, Row, TargetKinds

\* Sets of exclusion rows exclude sets of addresses.
LEMMA ExcludedTyped ==
    ASSUME TargetTypeOK, NEW rows \in SUBSET Exclusions
    PROVE  Excluded(rows) \subseteq Addresses
BY DEF TargetTypeOK, Excluded, Row

\* pin_fqdn_targets and worker_targets_from_snapshot hand out known addresses.
LEMMA PinnedTyped ==
    ASSUME TargetTypeOK, NEW excluded
    PROVE  Pinned(excluded) \subseteq Addresses
BY DEF TargetTypeOK, Pinned, Remaining

\* worker_execution_payload: a WAN payload that was not blocked has no
\* prohibited address besides those it excludes.
LEMMA PinnedIsPublic ==
    ASSUME TargetTypeOK, NEW excluded, ~PinBlocks(excluded)
    PROVE  Pinned(excluded) \cap Prohibited = {}
<1>1. Remaining(job.targets, excluded) \cap Prohibited = {}
  BY DEF Remaining
<1>2. "name" \in job.targets /\ answer \cap excluded = {} => answer \cap Prohibited = {}
  BY DEF PinBlocks
<1> QED
  BY <1>1, <1>2 DEF Pinned

\* A payload, new or of a resumed run, has the targets that are allowed now.
LEMMA MakePayloadStep ==
    ASSUME TargetInv, NEW resumed \in BOOLEAN, MakePayload(resumed)
    PROVE  TargetInv'
<1> DEFINE excluded == Excluded(CombinedRows)
           barred == IF job.scope = "wan" THEN Prohibited ELSE {}
<1>1. payload' = [held |-> TRUE, targets |-> Pinned(excluded), excluded |-> excluded, scanned |-> {},
                  forbidden |-> excluded \cup barred]
  BY DEF MakePayload, CombinedRows
<1>2. CombinedRows \subseteq Exclusions
  BY DEF TargetInv, TargetTypeOK, CombinedRows, Effective
<1>3. excluded \subseteq Addresses /\ Pinned(excluded) \subseteq Addresses /\ barred \subseteq Addresses
  BY <1>2, ExcludedTyped, PinnedTyped DEF TargetInv
<1>4. TargetTypeOK'
  <2>1. /\ Pinned(excluded) \in SUBSET Addresses /\ excluded \in SUBSET Addresses
        /\ excluded \cup barred \in SUBSET Addresses
    BY <1>3
  <2>2. payload' \in [held : BOOLEAN, targets : SUBSET Addresses, excluded : SUBSET Addresses,
                     scanned : SUBSET Addresses, forbidden : SUBSET Addresses]
    <3> HIDE DEF excluded, barred
    <3> QED
      BY <1>1, <2>1
  <2>3. UNCHANGED <<exclusion, allowed, answer, job>>
    BY DEF MakePayload
  <2> QED
    BY <2>2, <2>3 DEF TargetInv, TargetTypeOK
<1>5. Pinned(excluded) \cap Prohibited = {}
  BY PinnedIsPublic DEF TargetInv, MakePayload
<1>6. PayloadIsSafe'
  BY <1>1, <1>5 DEF PayloadIsSafe
<1> QED
  BY <1>4, <1>6 DEF TargetInv

\* resolve_execution_targets
LEMMA ResolveStep ==
    ASSUME TargetInv, ResolveTargets
    PROVE  TargetInv'
<1>1. payload' = [payload EXCEPT !.scanned = payload.targets \ payload.excluded]
  BY DEF ResolveTargets
<1>2. TargetTypeOK'
  BY <1>1 DEF TargetInv, TargetTypeOK, ResolveTargets
<1>3. PayloadIsSafe'
  BY <1>1 DEF TargetInv, TargetTypeOK, PayloadIsSafe
<1> QED
  BY <1>2, <1>3 DEF TargetInv

\* What admins, the DNS, the creation and the start of a run do leaves the
\* payload as it is.
LEMMA OtherSteps ==
    ASSUME TargetInv, NextTargets, UNCHANGED payload
    PROVE  TargetInv'
<1>1. PayloadIsSafe'
  BY DEF TargetInv, PayloadIsSafe
<1>2. ASSUME NEW x \in Exclusions, NEW c \in RowScopes, NEW addrs \in Excludable, CreateExclusion(x, c, addrs)
      PROVE  TargetTypeOK'
  BY <1>2 DEF TargetInv, TargetTypeOK, CreateExclusion, Row
<1>3. ASSUME NEW x \in Exclusions, ArchiveExclusion(x)
      PROVE  TargetTypeOK'
  <2>1. exclusion[x] \in Row /\ exclusion' = [exclusion EXCEPT ![x] = [exclusion[x] EXCEPT !.at = "archived"]]
    BY <1>3 DEF TargetInv, TargetTypeOK, ArchiveExclusion
  <2> QED
    BY <1>3, <2>1 DEF TargetInv, TargetTypeOK, ArchiveExclusion, Row
<1>4. ASSUME NEW t \in TargetKinds, CreateWanTarget(t) \/ Disallow(t)
      PROVE  TargetTypeOK'
  BY <1>4 DEF TargetInv, TargetTypeOK, CreateWanTarget, Disallow
<1>5. ASSUME NEW addrs \in Answers, NameChanges(addrs)
      PROVE  TargetTypeOK'
  BY <1>5 DEF TargetInv, TargetTypeOK, NameChanges
<1>6. ASSUME NEW scope \in {"lan", "wan"}, NEW targets \in SUBSET TargetKinds, CreateRun(scope, targets)
      PROVE  TargetTypeOK'
  BY <1>6 DEF TargetInv, TargetTypeOK, CreateRun, RunSnapshot, Effective
<1>7. ASSUME Start
      PROVE  TargetTypeOK'
  BY <1>7 DEF TargetInv, TargetTypeOK, Start
<1>8. ASSUME NEW resumed \in BOOLEAN, MakePayload(resumed)
      PROVE  TargetTypeOK'
  BY <1>8, MakePayloadStep DEF TargetInv
<1>9. ASSUME ResolveTargets
      PROVE  TargetTypeOK'
  BY <1>9, ResolveStep DEF TargetInv
<1>10. TargetTypeOK'
  BY <1>2, <1>3, <1>4, <1>5, <1>6, <1>7, <1>8, <1>9 DEF NextTargets
<1> QED
  BY <1>1, <1>10 DEF TargetInv

\* Every step keeps the invariant.
LEMMA TargetStepKeepsInv == TargetInv /\ [NextTargets]_targetVars => TargetInv'
<1> SUFFICES ASSUME TargetInv, [NextTargets]_targetVars PROVE TargetInv'
  OBVIOUS
<1>1. CASE UNCHANGED targetVars
  BY <1>1 DEF targetVars, TargetInv, TargetTypeOK, PayloadIsSafe
<1>2. CASE NextTargets
  <2>1. CASE UNCHANGED payload
    BY <1>2, <2>1, OtherSteps
  <2>2. CASE \E resumed \in BOOLEAN : MakePayload(resumed)
    BY <2>2, MakePayloadStep
  <2>3. CASE ResolveTargets
    BY <2>3, ResolveStep
  <2> QED
    BY <1>2, <2>1, <2>2, <2>3 DEF NextTargets, CreateExclusion, ArchiveExclusion, CreateWanTarget,
       Disallow, NameChanges, CreateRun, Start
<1> QED
  BY <1>1, <1>2

\* The inductive invariant of exclusions, targets and payloads.
THEOREM TargetInvHolds == TargetSpec => []TargetInv
BY TargetInitHolds, TargetStepKeepsInv, PTL DEF TargetSpec

\* The worker never scans an address that was excluded when its run was queued
\* or when its payload was made (worker_execution_payload), nor, in a WAN run,
\* a prohibited one (pin_fqdn_targets), whatever the DNS answers in between.
THEOREM ForbiddenNeverScanned == TargetSpec => []ForbiddenIsNeverScanned
<1>1. TargetInv => ForbiddenIsNeverScanned
  BY DEF TargetInv, PayloadIsSafe, ForbiddenIsNeverScanned
<1> QED
  BY <1>1, TargetInvHolds, PTL

\* Every reachable exclusion, run and payload is well typed.
THEOREM TargetTypeCorrect == TargetSpec => []TargetTypeOK
<1>1. TargetInv => TargetTypeOK
  BY DEF TargetInv
<1> QED
  BY <1>1, TargetInvHolds, PTL

HIDE TargetAssumption

-----------------------------------------------------------------------------
(* ScanPipeline: what is covered was scanned to its end *)

BeforeNuclei == {"discovery", "identity", "ports", "fingerprint", "httpx", "vulnerability"}

\* Nothing is covered and nothing failed before Nuclei; while it runs, what it
\* is done with was scanned unless a group failed; it passes on to the end of
\* the pipeline only without such a failure.
ScanProgress ==
    /\ pipe.at \in BeforeNuclei \cup {"nuclei", "finalize"} => output.coverage = {}
    /\ pipe.at \in BeforeNuclei \cup {"finalize"} => ~pipe.broken
    /\ pipe.at = "nuclei" =>
          /\ pipe.todo \subseteq pipe.given
          /\ ~pipe.broken => pipe.given \ pipe.todo \subseteq pipe.scanned
    /\ pipe.at = "finalize" => pipe.given \subseteq pipe.scanned

PipelineInv == PipelineTypeOK /\ ScanProgress /\ CoverageWasScanned

\* Nothing has run and nothing is covered.
LEMMA PipelineInitHolds == InitPipeline => PipelineInv
<1> SUFFICES ASSUME InitPipeline PROVE PipelineInv
  OBVIOUS
<1>1. pipe \in Pipe /\ pipe.at = "discovery" /\ ~pipe.broken
  BY DEF InitPipeline, Pipe
<1>2. output \in Output /\ output.coverage = {}
  BY DEF InitPipeline, Output
<1>3. stages \in Stages /\ cancelled \in BOOLEAN
  BY DEF InitPipeline
<1> QED
  BY <1>1, <1>2, <1>3 DEF PipelineInv, PipelineTypeOK, ScanProgress, CoverageWasScanned, BeforeNuclei

\* fail(), with a coverage that was scanned.
LEMMA FailStep ==
    ASSUME PipelineInv, NEW p \in Pipe, NEW o \in Output, Fail(p, o),
           o.coverage \subseteq p.scanned,
           o.coverage # {} => ~p.broken /\ p.given \subseteq p.scanned
    PROVE  PipelineInv'
<1>1. /\ pipe' = [p EXCEPT !.at = "failed"] /\ output' = [o EXCEPT !.devices = p.found]
      /\ UNCHANGED <<stages, cancelled>>
  BY DEF Fail, Devices
<1>2. pipe' \in Pipe /\ pipe'.at = "failed" /\ pipe'.scanned = p.scanned
      /\ pipe'.broken = p.broken /\ pipe'.given = p.given
  BY <1>1 DEF Pipe
<1>3. output' \in Output /\ output'.coverage = o.coverage
  BY <1>1 DEF Output, Pipe
<1> QED
  BY <1>1, <1>2, <1>3 DEF PipelineInv, PipelineTypeOK, ScanProgress, CoverageWasScanned, BeforeNuclei

\* A stage before Nuclei that goes on.
LEMMA EarlyStep ==
    ASSUME PipelineInv, NEW p \in Pipe, NEW o \in Output, NEW at \in BeforeNuclei, Continue(p, at, o),
           o.coverage = {}, ~p.broken
    PROVE  PipelineInv'
<1>1. pipe' = [p EXCEPT !.at = at] /\ output' = o /\ UNCHANGED <<stages, cancelled>>
  BY DEF Continue
<1>2. pipe' \in Pipe /\ pipe'.at = at /\ pipe'.broken = p.broken
  BY <1>1 DEF Pipe, BeforeNuclei
<1> QED
  BY <1>1, <1>2 DEF PipelineInv, PipelineTypeOK, ScanProgress, CoverageWasScanned, BeforeNuclei

\* What the index of devices learns keeps its type and the state of Nuclei.
LEMMA IndexedTyped ==
    ASSUME NEW p \in Pipe, NEW hosts \in SUBSET Targets, NEW open \in SUBSET Targets
    PROVE  Indexed(p, hosts, open) \in Pipe /\ Indexed(p, hosts, open).broken = p.broken
BY DEF Indexed, Pipe

\* An artifact that is captured changes no coverage.
LEMMA CapturedTyped ==
    ASSUME NEW o \in Output, NEW key \in ArtifactKeys
    PROVE  Captured(o, key) \in Output /\ Captured(o, key).coverage = o.coverage
BY DEF Captured, Output

\* The discovery finds hosts among the targets, or fails.
LEMMA DiscoverStep == ASSUME PipelineInv, Discover PROVE PipelineInv'
<1>1. pipe \in Pipe /\ output \in Output /\ pipe.at = "discovery" /\ output.coverage = {} /\ ~pipe.broken
  BY DEF Discover, PipelineInv, PipelineTypeOK, ScanProgress, BeforeNuclei
<1>2. CASE Fail(pipe, output)
  BY <1>1, <1>2, FailStep
<1>3. ASSUME NEW live \in SUBSET Targets,
             Continue(Indexed(pipe, live, live), "identity", Captured(output, "discovery"))
      PROVE  PipelineInv'
  <2>1. Indexed(pipe, live, live) \in Pipe /\ ~Indexed(pipe, live, live).broken
    BY <1>1, IndexedTyped
  <2>2. Captured(output, "discovery") \in Output /\ Captured(output, "discovery").coverage = {}
    BY <1>1, CapturedTyped DEF ArtifactKeys
  <2>3. "identity" \in BeforeNuclei
    BY DEF BeforeNuclei
  <2> QED
    BY <1>3, <2>1, <2>2, <2>3, EarlyStep
<1> QED
  BY <1>2, <1>3 DEF Discover

\* Without discovery every target is taken for live.
LEMMA SkipDiscoveryStep == ASSUME PipelineInv, SkipDiscovery PROVE PipelineInv'
<1>1. pipe \in Pipe /\ output \in Output /\ output.coverage = {} /\ ~pipe.broken
  BY DEF SkipDiscovery, PipelineInv, PipelineTypeOK, ScanProgress, BeforeNuclei
<1>2. "identity" \in BeforeNuclei
  BY DEF BeforeNuclei
<1> QED
  BY <1>1, <1>2, EarlyStep DEF SkipDiscovery

\* Identification looks at the hosts that were found.
LEMMA IdentifyStep == ASSUME PipelineInv, Identify PROVE PipelineInv'
<1>1. pipe \in Pipe /\ output \in Output /\ output.coverage = {} /\ ~pipe.broken
  BY DEF Identify, PipelineInv, PipelineTypeOK, ScanProgress, BeforeNuclei
<1>2. PICK live \in Alive, udp \in SpeakUdp : Continue(Indexed(pipe, live \cup udp, udp), "ports", output)
  BY DEF Identify
<1>3. live \in SUBSET Targets /\ udp \in SUBSET Targets
  BY DEF Alive, SpeakUdp
<1>4. Indexed(pipe, live \cup udp, udp) \in Pipe /\ ~Indexed(pipe, live \cup udp, udp).broken
  BY <1>1, <1>3, IndexedTyped
<1>5. "ports" \in BeforeNuclei
  BY DEF BeforeNuclei
<1> QED
  BY <1>1, <1>2, <1>4, <1>5, EarlyStep

\* The port scan ends well, or fails.
LEMMA PortScanStep == ASSUME PipelineInv, PortScan PROVE PipelineInv'
<1>1. pipe \in Pipe /\ output \in Output /\ output.coverage = {} /\ ~pipe.broken
  BY DEF PortScan, PipelineInv, PipelineTypeOK, ScanProgress, BeforeNuclei
<1>2. CASE Fail(pipe, output)
  BY <1>1, <1>2, FailStep
<1>3. ASSUME NEW up \in SUBSET PortScanTargets,
             Continue(Indexed(pipe, up, up), "fingerprint", Captured(output, "ports"))
      PROVE  PipelineInv'
  <2>1. up \in SUBSET Targets
    BY <1>1 DEF PortScanTargets, Pipe, Targets
  <2>2. Indexed(pipe, up, up) \in Pipe /\ ~Indexed(pipe, up, up).broken
    BY <1>1, <2>1, IndexedTyped
  <2>3. Captured(output, "ports") \in Output /\ Captured(output, "ports").coverage = {}
    BY <1>1, CapturedTyped DEF ArtifactKeys
  <2>4. "fingerprint" \in BeforeNuclei
    BY DEF BeforeNuclei
  <2> QED
    BY <1>3, <2>2, <2>3, <2>4, EarlyStep
<1> QED
  BY <1>2, <1>3 DEF PortScan

\* A scan without ports goes on with what it has.
LEMMA SkipPortsStep == ASSUME PipelineInv, SkipPorts PROVE PipelineInv'
<1>1. pipe \in Pipe /\ output \in Output /\ output.coverage = {} /\ ~pipe.broken
  BY DEF SkipPorts, PipelineInv, PipelineTypeOK, ScanProgress, BeforeNuclei
<1>2. "fingerprint" \in BeforeNuclei
  BY DEF BeforeNuclei
<1> QED
  BY <1>1, <1>2, EarlyStep DEF SkipPorts

\* Fingerprinting starts with no group done.
LEMMA StartFingerprintStep == ASSUME PipelineInv, StartFingerprint PROVE PipelineInv'
<1>1. pipe \in Pipe /\ output \in Output /\ output.coverage = {} /\ ~pipe.broken
  BY DEF StartFingerprint, PipelineInv, PipelineTypeOK, ScanProgress, BeforeNuclei
<1>2. PICK hosts \in SUBSET Targets :
        Continue([pipe EXCEPT !.todo = hosts], IF hosts = {} THEN "vulnerability" ELSE "httpx", output)
  <2>1. ProbeHosts \subseteq Targets
    BY <1>1 DEF ProbeHosts, Pipe, Targets
  <2> QED
    BY <2>1 DEF StartFingerprint
<1>3. [pipe EXCEPT !.todo = hosts] \in Pipe /\ ~[pipe EXCEPT !.todo = hosts].broken
  BY <1>1 DEF Pipe
<1>4. (IF hosts = {} THEN "vulnerability" ELSE "httpx") \in BeforeNuclei
  BY DEF BeforeNuclei
<1> QED
  BY <1>1, <1>2, <1>3, <1>4, EarlyStep

\* A group of httpx adds the hosts that answered, or fails.
LEMMA HttpxGroupStep == ASSUME PipelineInv, NEW h \in Targets, HttpxGroup(h) PROVE PipelineInv'
<1>1. pipe \in Pipe /\ output \in Output /\ output.coverage = {} /\ ~pipe.broken
  BY DEF HttpxGroup, PipelineInv, PipelineTypeOK, ScanProgress, BeforeNuclei
<1>2. CASE Fail(pipe, output)
  BY <1>1, <1>2, FailStep
<1>3. ASSUME NEW up \in SUBSET (GroupOf(h) \cap pipe.todo), NEW p,
             p = [Fingerprinted(pipe, up) EXCEPT !.todo = @ \ GroupOf(h)],
             \/ Continue(p, "httpx", output)
             \/ Continue(p, "vulnerability", Captured(output, "httpx"))
      PROVE  PipelineInv'
  <2>1. up \in SUBSET Targets
    BY <1>1 DEF Pipe
  <2>2. Fingerprinted(pipe, up) \in Pipe /\ ~Fingerprinted(pipe, up).broken
    <3>1. Indexed(pipe, up, up) \in Pipe /\ ~Indexed(pipe, up, up).broken
      BY <1>1, <2>1, IndexedTyped
    <3> QED
      BY <2>1, <3>1 DEF Fingerprinted, Pipe
  <2>3. p \in Pipe /\ ~p.broken
    BY <1>3, <2>2 DEF Pipe
  <2>4. Captured(output, "httpx") \in Output /\ Captured(output, "httpx").coverage = {}
    BY <1>1, CapturedTyped DEF ArtifactKeys
  <2>5. "httpx" \in BeforeNuclei /\ "vulnerability" \in BeforeNuclei
    BY DEF BeforeNuclei
  <2> QED
    BY <1>1, <1>3, <2>3, <2>4, <2>5, EarlyStep
<1> QED
  BY <1>2, <1>3 DEF HttpxGroup

\* nuclei starts on what was fingerprinted.
LEMMA StartNucleiStep == ASSUME PipelineInv, StartNuclei PROVE PipelineInv'
<1> DEFINE hosts == IF stages.nuclei THEN NucleiScanTargets ELSE {}
<1>1. pipe \in Pipe /\ output \in Output /\ output.coverage = {} /\ ~pipe.broken
  BY DEF StartNuclei, PipelineInv, PipelineTypeOK, ScanProgress, BeforeNuclei
<1>2. hosts \in SUBSET Targets
  BY <1>1 DEF NucleiScanTargets, Pipe, Targets
<1>3. /\ pipe' = [[pipe EXCEPT !.given = hosts, !.todo = hosts] EXCEPT
                     !.at = IF hosts = {} THEN "finalize" ELSE "nuclei"]
      /\ output' = output /\ UNCHANGED <<stages, cancelled>>
  BY DEF StartNuclei, Continue
<1> HIDE DEF hosts
<1>4. /\ pipe' \in Pipe /\ pipe'.given = hosts /\ pipe'.todo = hosts /\ ~pipe'.broken
      /\ pipe'.at = IF hosts = {} THEN "finalize" ELSE "nuclei"
  BY <1>1, <1>2, <1>3 DEF Pipe
<1> QED
  BY <1>1, <1>3, <1>4 DEF PipelineInv, PipelineTypeOK, ScanProgress, CoverageWasScanned, BeforeNuclei

\* run_nuclei keeps the error of a group that failed: what it is done with was
\* scanned, or it ends in PipelineError.
LEMMA NucleiGroupStep == ASSUME PipelineInv, NEW h \in Targets, NucleiGroup(h) PROVE PipelineInv'
<1> DEFINE group == GroupOf(h) \cap pipe.todo
<1>1. pipe \in Pipe /\ output \in Output /\ output.coverage = {} /\ pipe.at = "nuclei"
  BY DEF NucleiGroup, PipelineInv, PipelineTypeOK, ScanProgress, BeforeNuclei
<1>2. PICK ok \in BOOLEAN, wrote \in BOOLEAN, hits \in SUBSET group :
        Continue([pipe EXCEPT !.todo = @ \ group, !.broken = Remembered(@, ~ok),
                              !.raw = Appended(@, wrote),
                              !.scanned = IF ok THEN @ \cup group ELSE @],
                 "nuclei", [output EXCEPT !.findings = @ \cup hits])
  BY DEF NucleiGroup
<1>3. group \subseteq Targets
  BY <1>1 DEF Pipe
<1> HIDE DEF group
<1>4. /\ pipe' \in Pipe /\ pipe'.at = "nuclei" /\ pipe'.given = pipe.given
      /\ pipe'.todo = pipe.todo \ group /\ pipe'.broken = (pipe.broken \/ ~ok)
      /\ pipe'.scanned = IF ok THEN pipe.scanned \cup group ELSE pipe.scanned
  BY <1>1, <1>2, <1>3 DEF Continue, Remembered, Appended, Pipe
<1>5. output' \in Output /\ output'.coverage = {} /\ UNCHANGED <<stages, cancelled>>
  BY <1>1, <1>2, <1>3 DEF Continue, Output
<1>6. pipe.todo \subseteq pipe.given /\ (~pipe.broken => pipe.given \ pipe.todo \subseteq pipe.scanned)
  BY <1>1 DEF PipelineInv, ScanProgress
<1> QED
  BY <1>4, <1>5, <1>6 DEF PipelineInv, PipelineTypeOK, ScanProgress, CoverageWasScanned, BeforeNuclei

\* The output of nuclei overflows: the run fails with what it has.
LEMMA NucleiOverflowsStep == ASSUME PipelineInv, NEW h \in Targets, NucleiOverflows(h) PROVE PipelineInv'
<1>1. pipe \in Pipe /\ output \in Output /\ output.coverage = {}
  BY DEF NucleiOverflows, PipelineInv, PipelineTypeOK, ScanProgress
<1> QED
  BY <1>1, FailStep DEF NucleiOverflows

\* nuclei ends with its result, or with the error of a host.
LEMMA NucleiEndsStep == ASSUME PipelineInv, NucleiEnds PROVE PipelineInv'
<1> DEFINE o == IF pipe.raw THEN Captured(output, "nuclei") ELSE output
<1>1. pipe \in Pipe /\ output \in Output /\ output.coverage = {} /\ pipe.todo = {}
  BY DEF NucleiEnds, PipelineInv, PipelineTypeOK, ScanProgress
<1>2. o \in Output /\ o.coverage = {}
  BY <1>1, CapturedTyped DEF ArtifactKeys
<1>3. CASE pipe.broken
  BY <1>1, <1>2, <1>3, FailStep DEF NucleiEnds
<1>4. CASE ~pipe.broken
  <2>1. pipe.given \subseteq pipe.scanned
    BY <1>1, <1>4 DEF NucleiEnds, PipelineInv, ScanProgress
  <2>2. pipe' = [pipe EXCEPT !.at = "finalize"] /\ output' = o /\ UNCHANGED <<stages, cancelled>>
    BY <1>4 DEF NucleiEnds, Continue
  <2>3. /\ pipe' \in Pipe /\ pipe'.at = "finalize" /\ pipe'.broken = pipe.broken
        /\ pipe'.given = pipe.given /\ pipe'.scanned = pipe.scanned
    BY <1>1, <2>2 DEF Pipe
  <2> HIDE DEF o
  <2> QED
    BY <1>2, <1>4, <2>1, <2>2, <2>3 DEF PipelineInv, PipelineTypeOK, ScanProgress, CoverageWasScanned, BeforeNuclei
<1> QED
  BY <1>3, <1>4

\* The findings and the coverage are those of the stages that ended.
LEMMA FinalizeStep == ASSUME PipelineInv, Finalize PROVE PipelineInv'
<1>1. /\ pipe \in Pipe /\ output \in Output /\ output.coverage = {}
      /\ ~pipe.broken /\ pipe.given \subseteq pipe.scanned
  BY DEF Finalize, PipelineInv, PipelineTypeOK, ScanProgress
<1>2. CASE Fail(pipe, output)
  BY <1>1, <1>2, FailStep
<1>3. ASSUME NEW covered \in SUBSET pipe.given, Fail(pipe, [output EXCEPT !.coverage = covered])
      PROVE  PipelineInv'
  <2>1. [output EXCEPT !.coverage = covered] \in Output /\ [output EXCEPT !.coverage = covered].coverage = covered
    BY <1>1 DEF Output, Pipe
  <2> QED
    BY <1>1, <1>3, <2>1, FailStep
<1>4. CASE Continue(pipe, "mark", [output EXCEPT !.devices = Devices(pipe), !.coverage = pipe.given])
  <2>1. /\ pipe' \in Pipe /\ pipe'.at = "mark" /\ pipe'.broken = pipe.broken
        /\ pipe'.given = pipe.given /\ pipe'.scanned = pipe.scanned
    BY <1>1, <1>4 DEF Continue, Pipe
  <2>2. output' \in Output /\ output'.coverage = pipe.given /\ UNCHANGED <<stages, cancelled>>
    BY <1>1, <1>4 DEF Continue, Devices, Output, Pipe
  <2> QED
    BY <1>1, <2>1, <2>2 DEF PipelineInv, PipelineTypeOK, ScanProgress, CoverageWasScanned, BeforeNuclei
<1> QED
  BY <1>2, <1>3, <1>4 DEF Finalize

\* The marker is written after everything else.
LEMMA MarkStep == ASSUME PipelineInv, MarkPipelineComplete PROVE PipelineInv'
<1>1. pipe \in Pipe /\ output \in Output /\ CoverageWasScanned
  BY DEF PipelineInv, PipelineTypeOK
<1>2. CASE Fail(pipe, output)
  BY <1>1, <1>2, FailStep DEF CoverageWasScanned
<1>3. CASE Continue(pipe, "complete", output)
  <2>1. /\ pipe' \in Pipe /\ pipe'.at = "complete" /\ pipe'.broken = pipe.broken
        /\ pipe'.given = pipe.given /\ pipe'.scanned = pipe.scanned
    BY <1>1, <1>3 DEF Continue, Pipe
  <2> QED
    BY <1>1, <1>3, <2>1 DEF Continue, PipelineInv, PipelineTypeOK, ScanProgress, CoverageWasScanned, BeforeNuclei
<1> QED
  BY <1>2, <1>3 DEF MarkPipelineComplete

\* A cancelled run leaves its output as it is.
LEMMA CancelStep == ASSUME PipelineInv, CancelRun PROVE PipelineInv'
BY DEF CancelRun, PipelineInv, PipelineTypeOK, ScanProgress, CoverageWasScanned

\* Every stage, in any order the flags allow, keeps the invariant.
LEMMA PipelineStepKeepsInv == PipelineInv /\ [NextPipeline]_pipelineVars => PipelineInv'
<1> SUFFICES ASSUME PipelineInv, [NextPipeline]_pipelineVars PROVE PipelineInv'
  OBVIOUS
<1>1. CASE UNCHANGED pipelineVars
  BY <1>1 DEF pipelineVars, PipelineInv, PipelineTypeOK, ScanProgress, CoverageWasScanned
<1>2. CASE NextPipeline
  BY <1>2, DiscoverStep, SkipDiscoveryStep, IdentifyStep, PortScanStep, SkipPortsStep,
     StartFingerprintStep, HttpxGroupStep, StartNucleiStep, NucleiGroupStep, NucleiOverflowsStep,
     NucleiEndsStep, FinalizeStep, MarkStep, CancelStep DEF NextPipeline
<1> QED
  BY <1>1, <1>2

\* The inductive invariant of a run of the pipeline (run_pipeline).
THEOREM PipelineInvHolds == PipelineSpec => []PipelineInv
BY PipelineInitHolds, PipelineStepKeepsInv, PTL DEF PipelineSpec

\* The coverage that a worker declares was scanned to its end by Nuclei, and
\* so was everything else the tool was given, whatever is cancelled or fails.
THEOREM CoverageIsScanned == PipelineSpec => []CoverageWasScanned
<1>1. PipelineInv => CoverageWasScanned
  BY DEF PipelineInv
<1> QED
  BY <1>1, PipelineInvHolds, PTL

\* The state of the pipeline and what it writes are well typed.
THEOREM PipelineTypeCorrect == PipelineSpec => []PipelineTypeOK
<1>1. PipelineInv => PipelineTypeOK
  BY DEF PipelineInv
<1> QED
  BY <1>1, PipelineInvHolds, PTL

-----------------------------------------------------------------------------
(* RawArtifacts: what is stored has its bytes, what is done has its evidence *)

USE ArtifactAssumption

\* A row names the upload that made it, which has ended and was for its key;
\* a request on its way has made no row, and has its file once it moved it.
RowsNameUploads ==
    /\ \A u \in Uploads : upload[u].at # "new" => upload[u].digest \in Digests
    /\ \A k \in Keys : stored[k].file # 0 =>
          /\ upload[stored[k].file].at = "ended" /\ upload[stored[k].file].key = k
          /\ stored[k].digest = upload[stored[k].file].digest
    /\ \A u \in Uploads : upload[u].at \in {"moved", "flushed"} => <<u, upload[u].digest>> \in files

\* The unique key: an open insert is the only one of its key, which has no row.
InsertsAreAlone ==
    /\ \A u \in Uploads : upload[u].at = "flushed" => stored[upload[u].key].file = 0
    /\ \A u, v \in Uploads : u # v /\ upload[u].at = "flushed" /\ upload[v].at = "flushed"
                                => upload[u].key # upload[v].key

\* Bytes are deleted of expired rows only, and before the row says so.
CleanupIsOfExpired ==
    /\ \A k \in Keys : stored[k].file = 0 => ~stored[k].expired
    /\ \A k \in Keys : stored[k].deleted => stored[k].expired
    /\ \A k \in cleaning : stored[k].expired /\ ~stored[k].deleted
                           /\ <<stored[k].file, stored[k].digest>> \notin files

ArtifactInv ==
    /\ ArtifactTypeOK /\ RowsNameUploads /\ InsertsAreAlone /\ CleanupIsOfExpired
    /\ StoredHasItsBytes /\ DoneHasItsEvidence

ArtifactRow == [file : Uploads \cup {0}, digest : Digests \cup {"none"}, expired : BOOLEAN, deleted : BOOLEAN]
UploadRow == [at : {"new", "written", "moved", "flushed", "ended"}, key : Keys, digest : Digests \cup {"none"}]

ArtifactSpec == InitArtifacts /\ [][NextArtifacts]_artifactVars

\* A key without an artifact and an upload at rest are well typed.
LEMMA NoArtifactTyped ==
    /\ NoArtifact \in ArtifactRow /\ NoArtifact.file = 0 /\ ~NoArtifact.expired /\ ~NoArtifact.deleted
    /\ IdleUpload \in UploadRow /\ IdleUpload.at = "new"
BY DEF NoArtifact, IdleUpload, ArtifactRow, UploadRow, Keys

\* No artifact, no file, no upload.
LEMMA ArtifactInitHolds == InitArtifacts => ArtifactInv
<1> SUFFICES ASSUME InitArtifacts PROVE ArtifactInv
  OBVIOUS
<1>1. stored \in [Keys -> ArtifactRow] /\ \A k \in Keys : stored[k] = NoArtifact
  BY NoArtifactTyped DEF InitArtifacts
<1>2. upload \in [Uploads -> UploadRow] /\ \A u \in Uploads : upload[u].at = "new"
  BY NoArtifactTyped DEF InitArtifacts
<1>3. ArtifactTypeOK
  BY <1>1, <1>2 DEF InitArtifacts, ArtifactTypeOK, ArtifactRow, UploadRow, Snapshot
<1>4. RowsNameUploads /\ InsertsAreAlone
  BY <1>1, <1>2, NoArtifactTyped DEF RowsNameUploads, InsertsAreAlone
<1>5. CleanupIsOfExpired
  BY <1>1, NoArtifactTyped DEF InitArtifacts, CleanupIsOfExpired
<1>6. StoredHasItsBytes /\ DoneHasItsEvidence
  BY <1>1, NoArtifactTyped DEF InitArtifacts, StoredHasItsBytes, DoneHasItsEvidence, Persisted
<1> QED
  BY <1>3, <1>4, <1>5, <1>6 DEF ArtifactInv

\* The done run keeps its evidence as long as rows are kept.
LEMMA EvidenceStays ==
    ASSUME ArtifactInv, UNCHANGED <<snapshot, runState>>, \A k \in Keys : stored[k].file # 0 => stored'[k].file # 0
    PROVE  DoneHasItsEvidence'
<1>1. Persisted \subseteq Persisted'
  BY DEF Persisted
<1>2. CASE runState = "running"
  BY <1>2 DEF DoneHasItsEvidence
<1>3. CASE runState # "running"
  <2>1. \A k \in Persisted : k \in Persisted'
    BY <1>1
  <2>2. Persisted \cap {"discovery", "port_discovery"} # {} => Persisted' \cap {"discovery", "port_discovery"} # {}
    BY <2>1
  <2> QED
    BY <1>3, <2>1, <2>2 DEF ArtifactInv, DoneHasItsEvidence
<1> QED
  BY <1>2, <1>3

\* The stages are chosen and the results ingested.
LEMMA StagesStep ==
    ASSUME ArtifactInv, (\E s \in Snapshot : ChooseStages(s)) \/ IngestResults
    PROVE  ArtifactInv'
<1>1. UNCHANGED <<runState, stored, files, upload, cleaning>> /\ runState = "running"
      /\ snapshot' \in Snapshot /\ ingested' \in BOOLEAN
  BY DEF ChooseStages, IngestResults, ArtifactInv, ArtifactTypeOK
<1>2. ArtifactTypeOK'
  BY <1>1 DEF ArtifactInv, ArtifactTypeOK
<1>3. RowsNameUploads' /\ InsertsAreAlone'
  BY <1>1 DEF ArtifactInv, RowsNameUploads, InsertsAreAlone
<1>4. CleanupIsOfExpired' /\ StoredHasItsBytes'
  BY <1>1 DEF ArtifactInv, CleanupIsOfExpired, StoredHasItsBytes, Persisted
<1>5. DoneHasItsEvidence'
  BY <1>1 DEF DoneHasItsEvidence
<1> QED
  BY <1>2, <1>3, <1>4, <1>5 DEF ArtifactInv

\* expected_artifact_keys and apply_raw_evidence_declaration ask for the
\* evidence of every stage.
LEMMA CompleteArtifactsStep ==
    ASSUME ArtifactInv, NEW status \in {"captured", "skipped", "dry_run", "none_executed"},
           NEW declared \in SUBSET Keys, CompleteRun(status, declared)
    PROVE  ArtifactInv'
<1>1. UNCHANGED <<snapshot, ingested, stored, files, upload, cleaning>> /\ runState' = status /\ MayDeclare(status, declared)
  BY DEF CompleteRun
<1>2. ArtifactTypeOK'
  BY <1>1 DEF ArtifactInv, ArtifactTypeOK
<1>3. RowsNameUploads' /\ InsertsAreAlone'
  BY <1>1 DEF ArtifactInv, RowsNameUploads, InsertsAreAlone
<1>4. CleanupIsOfExpired' /\ StoredHasItsBytes' /\ Persisted' = Persisted
  BY <1>1 DEF ArtifactInv, CleanupIsOfExpired, StoredHasItsBytes, Persisted
<1>5. DoneHasItsEvidence'
  <2>1. ~snapshot.dry => \A k \in Keys :
          \/ k = "port_discovery" /\ snapshot.ports
          \/ k = "discovery" /\ snapshot.discovery /\ ~snapshot.ports
          \/ k = "nuclei" /\ snapshot.nuclei
          => k \in ExpectedKeys(snapshot)
    BY DEF ExpectedKeys, Keys
  <2>2. ~snapshot.dry => /\ snapshot.ports => "port_discovery" \in ExpectedKeys(snapshot)
                         /\ snapshot.discovery /\ ~snapshot.ports => "discovery" \in ExpectedKeys(snapshot)
                         /\ snapshot.nuclei => "nuclei" \in ExpectedKeys(snapshot)
    BY <2>1 DEF Keys
  <2>3. CASE status = "captured"
    <3>1. ~snapshot.dry /\ ExpectedKeys(snapshot) \subseteq Persisted
      BY <1>1, <2>3 DEF MayDeclare
    <3> QED
      BY <1>1, <1>4, <2>2, <3>1 DEF DoneHasItsEvidence
  <2>4. CASE status = "skipped"
    <3>1. Persisted = {"discovery"}
      BY <1>1, <2>4 DEF MayDeclare
    <3> QED
      BY <1>1, <1>4, <2>4, <3>1 DEF DoneHasItsEvidence
  <2>5. CASE status = "dry_run"
    <3>1. snapshot.dry
      BY <1>1, <2>5 DEF MayDeclare
    <3> QED
      BY <1>1, <3>1 DEF DoneHasItsEvidence
  <2>6. CASE status = "none_executed"
    <3>1. ~snapshot.dry /\ ExpectedKeys(snapshot) = {}
      BY <1>1, <2>6 DEF MayDeclare
    <3> QED
      BY <1>1, <1>4, <2>2, <3>1 DEF DoneHasItsEvidence
  <2> QED
    BY <2>3, <2>4, <2>5, <2>6
<1> QED
  BY <1>2, <1>3, <1>4, <1>5 DEF ArtifactInv

\* A request goes on: its row in upload changes, and its own file may.
LEMMA RequestSteps ==
    ASSUME ArtifactInv, NEW u \in Uploads, UNCHANGED <<snapshot, runState, ingested, stored, cleaning>>,
           upload[u].at # "ended", NEW r \in UploadRow, upload' = [upload EXCEPT ![u] = r],
           r.at # "new" => r.digest \in Digests,
           r.at \in {"moved", "flushed"} => <<u, r.digest>> \in files',
           r.at = "flushed" => /\ stored[r.key].file = 0
                               /\ \A v \in Uploads \ {u} : upload[v].at = "flushed" => upload[v].key # r.key,
           files' \subseteq Uploads \X Digests,
           \A v \in Uploads \ {u}, d \in Digests : <<v, d>> \in files' <=> <<v, d>> \in files
    PROVE  ArtifactInv'
<1>0. /\ stored \in [Keys -> ArtifactRow] /\ upload \in [Uploads -> UploadRow]
  BY DEF ArtifactInv, ArtifactTypeOK, ArtifactRow, UploadRow
<1>1. upload' \in [Uploads -> UploadRow] /\ upload'[u] = r /\ \A v \in Uploads \ {u} : upload'[v] = upload[v]
  BY <1>0
<1>2. \A k \in Keys : stored[k].file # 0 => stored[k].file \in Uploads \ {u} /\ stored[k].digest \in Digests
  BY <1>0 DEF ArtifactInv, RowsNameUploads, ArtifactRow
<1>3. ArtifactTypeOK'
  BY <1>1 DEF ArtifactInv, ArtifactTypeOK, UploadRow
<1>4. RowsNameUploads'
  BY <1>0, <1>1, <1>2 DEF ArtifactInv, RowsNameUploads
<1>5. InsertsAreAlone'
  BY <1>1 DEF ArtifactInv, InsertsAreAlone
<1>6. \A k \in Keys : stored[k].file # 0 =>
         (<<stored[k].file, stored[k].digest>> \in files' <=> <<stored[k].file, stored[k].digest>> \in files)
  BY <1>2
<1>7. CleanupIsOfExpired'
  <2>1. \A k \in cleaning : k \in Keys /\ stored[k].file # 0
    BY DEF ArtifactInv, ArtifactTypeOK, CleanupIsOfExpired
  <2> QED
    BY <1>6, <2>1 DEF ArtifactInv, CleanupIsOfExpired
<1>8. StoredHasItsBytes'
  BY <1>6 DEF ArtifactInv, StoredHasItsBytes, Persisted
<1>9. DoneHasItsEvidence'
  BY EvidenceStays
<1> QED
  BY <1>3, <1>4, <1>5, <1>7, <1>8, <1>9 DEF ArtifactInv

\* The steps of one upload, from the temporary file to the commit or its end.
LEMMA UploadSteps ==
    ASSUME ArtifactInv, NEW u \in Uploads,
           WriteTemp(u) \/ MoveOrRefuse(u) \/ FlushRow(u) \/ CommitFails(u) \/ UploadDies(u)
    PROVE  ArtifactInv'
<1>0. /\ stored \in [Keys -> ArtifactRow] /\ upload \in [Uploads -> UploadRow] /\ upload[u] \in UploadRow
      /\ files \subseteq Uploads \X Digests
      /\ upload[u].at # "new" => upload[u].digest \in Digests
      /\ upload[u].at \in {"moved", "flushed"} => <<u, upload[u].digest>> \in files
  BY DEF ArtifactInv, ArtifactTypeOK, ArtifactRow, UploadRow, RowsNameUploads
<1>1. CASE WriteTemp(u)
  <2>1. PICK k \in Keys, d \in Digests : upload' = [upload EXCEPT ![u] = [at |-> "written", key |-> k, digest |-> d]]
    BY <1>1 DEF WriteTemp
  <2> DEFINE r == [at |-> "written", key |-> k, digest |-> d]
  <2>2. r \in UploadRow /\ r.at = "written" /\ r.digest \in Digests
    BY DEF UploadRow
  <2>3. upload' = [upload EXCEPT ![u] = r] /\ upload[u].at # "ended" /\ files' = files
        /\ UNCHANGED <<snapshot, runState, ingested, stored, cleaning>>
    BY <1>1, <2>1 DEF WriteTemp
  <2> HIDE DEF r
  <2> QED
    BY <1>0, <2>2, <2>3, RequestSteps
<1>2. CASE MoveOrRefuse(u)
  <2> DEFINE r(at) == [upload[u] EXCEPT !.at = at]
  <2>1. /\ upload[u].at = "written" /\ UNCHANGED <<snapshot, runState, ingested, stored, cleaning>>
        /\ \/ upload' = [upload EXCEPT ![u] = r("ended")] /\ files' = files
           \/ upload' = [upload EXCEPT ![u] = r("moved")] /\ files' = files \cup {<<u, upload[u].digest>>}
    BY <1>2 DEF MoveOrRefuse, Sets
  <2>2. \A at \in {"moved", "ended"} : r(at) \in UploadRow /\ r(at).at = at /\ r(at).digest = upload[u].digest
    BY <1>0 DEF UploadRow
  <2> HIDE DEF r
  <2>3. CASE upload' = [upload EXCEPT ![u] = r("ended")] /\ files' = files
    BY <1>0, <2>1, <2>2, <2>3, RequestSteps
  <2>4. CASE upload' = [upload EXCEPT ![u] = r("moved")] /\ files' = files \cup {<<u, upload[u].digest>>}
    <3>1. \A v \in Uploads \ {u}, d \in Digests : <<v, d>> \in files' <=> <<v, d>> \in files
      BY <2>4
    <3>2. files' \subseteq Uploads \X Digests /\ <<u, r("moved").digest>> \in files'
      BY <1>0, <2>1, <2>2, <2>4
    <3> QED
      BY <1>0, <2>1, <2>2, <2>4, <3>1, <3>2, RequestSteps
  <2> QED
    BY <2>1, <2>3, <2>4
<1>3. CASE FlushRow(u)
  <2> DEFINE r(at) == [upload[u] EXCEPT !.at = at]
  <2>1. /\ upload[u].at = "moved" /\ UNCHANGED <<snapshot, runState, ingested, stored, cleaning>>
        /\ \A v \in Uploads \ {u} : upload[v].at = "flushed" => upload[v].key # upload[u].key
        /\ \/ upload' = [upload EXCEPT ![u] = r("ended")] /\ files' = files \ {<<u, upload[u].digest>>}
           \/ /\ upload' = [upload EXCEPT ![u] = r("flushed")] /\ files' = files
              /\ upload[u].key \notin Persisted
    BY <1>3 DEF FlushRow, Sets, Loser
  <2>2. \A at \in {"flushed", "ended"} : /\ r(at) \in UploadRow /\ r(at).at = at
                                         /\ r(at).digest = upload[u].digest /\ r(at).key = upload[u].key
    BY <1>0 DEF UploadRow
  <2>3. upload[u].key \in Keys
    BY <1>0 DEF UploadRow
  <2> HIDE DEF r
  <2>4. CASE upload' = [upload EXCEPT ![u] = r("ended")] /\ files' = files \ {<<u, upload[u].digest>>}
    <3>1. \A v \in Uploads \ {u}, d \in Digests : <<v, d>> \in files' <=> <<v, d>> \in files
      BY <2>4
    <3> QED
      BY <1>0, <2>1, <2>2, <2>4, <3>1, RequestSteps
  <2>5. CASE upload' = [upload EXCEPT ![u] = r("flushed")] /\ files' = files /\ upload[u].key \notin Persisted
    <3>1. stored[r("flushed").key].file = 0
      BY <2>2, <2>3, <2>5 DEF Persisted
    <3> QED
      BY <1>0, <2>1, <2>2, <2>5, <3>1, RequestSteps
  <2> QED
    BY <2>1, <2>4, <2>5
<1>4. CASE CommitFails(u) \/ UploadDies(u)
  <2> DEFINE r == [upload[u] EXCEPT !.at = "ended"]
  <2>1. /\ upload[u].at \notin {"new", "ended"} /\ UNCHANGED <<snapshot, runState, ingested, stored, cleaning>>
        /\ upload' = [upload EXCEPT ![u] = r]
        /\ files' = files \/ files' = files \ {<<u, upload[u].digest>>}
    BY <1>4 DEF CommitFails, UploadDies, Sets
  <2>2. r \in UploadRow /\ r.at = "ended" /\ r.digest = upload[u].digest
    BY <1>0 DEF UploadRow
  <2> HIDE DEF r
  <2>3. \A v \in Uploads \ {u}, d \in Digests : <<v, d>> \in files' <=> <<v, d>> \in files
    BY <2>1
  <2> QED
    BY <1>0, <2>1, <2>2, <2>3, RequestSteps
<1> QED
  BY <1>1, <1>2, <1>3, <1>4

\* A row is added of an upload whose insert was the only one of its key.
LEMMA CommitRowStep ==
    ASSUME ArtifactInv, NEW u \in Uploads, CommitRow(u)
    PROVE  ArtifactInv'
<1> DEFINE row == [NoArtifact EXCEPT !.file = u, !.digest = upload[u].digest]
<1> DEFINE key == upload[u].key
<1>0. /\ stored \in [Keys -> ArtifactRow] /\ upload \in [Uploads -> UploadRow] /\ upload[u] \in UploadRow
      /\ upload[u].at = "flushed" /\ upload[u].digest \in Digests /\ key \in Keys
      /\ <<u, upload[u].digest>> \in files /\ stored[key].file = 0
  BY DEF CommitRow, ArtifactInv, ArtifactTypeOK, ArtifactRow, UploadRow, RowsNameUploads, InsertsAreAlone
<1>1. /\ row \in ArtifactRow /\ row.file = u /\ row.digest = upload[u].digest /\ ~row.expired /\ ~row.deleted
      /\ row.file # 0
  BY <1>0, NoArtifactTyped DEF NoArtifact, ArtifactRow
<1>2. /\ stored' = [stored EXCEPT ![key] = row]
      /\ upload' = [upload EXCEPT ![u].at = "ended"]
      /\ UNCHANGED <<snapshot, runState, ingested, files, cleaning>>
  BY DEF CommitRow, Sets
<1> HIDE DEF row, key
<1>3. stored' \in [Keys -> ArtifactRow] /\ stored'[key] = row /\ \A k \in Keys \ {key} : stored'[k] = stored[k]
  BY <1>0, <1>1, <1>2
<1>4. /\ upload' \in [Uploads -> UploadRow]
      /\ upload'[u].at = "ended" /\ upload'[u].key = key /\ upload'[u].digest = upload[u].digest
      /\ \A v \in Uploads \ {u} : upload'[v] = upload[v]
  BY <1>0, <1>2 DEF UploadRow, key
<1>5. ArtifactTypeOK'
  BY <1>2, <1>3, <1>4 DEF ArtifactInv, ArtifactTypeOK, ArtifactRow, UploadRow
<1>6. \A k \in Keys : stored[k].file # 0 => stored[k].file \in Uploads \ {u} /\ k # key
  BY <1>0 DEF ArtifactInv, RowsNameUploads, ArtifactRow
<1>7. RowsNameUploads'
  <2>1. \A v \in Uploads : upload'[v].at # "new" => upload'[v].digest \in Digests
    BY <1>0, <1>4 DEF ArtifactInv, RowsNameUploads
  <2>2. \A v \in Uploads : upload'[v].at \in {"moved", "flushed"} => <<v, upload'[v].digest>> \in files'
    BY <1>2, <1>4 DEF ArtifactInv, RowsNameUploads
  <2>3. ASSUME NEW k \in Keys, stored'[k].file # 0
        PROVE  upload'[stored'[k].file].at = "ended" /\ upload'[stored'[k].file].key = k
               /\ stored'[k].digest = upload'[stored'[k].file].digest
    <3>1. CASE k = key
      BY <1>1, <1>3, <1>4, <3>1
    <3>2. CASE k # key
      <4>1. stored'[k] = stored[k] /\ stored[k].file \in Uploads \ {u} /\ upload'[stored[k].file] = upload[stored[k].file]
        BY <1>3, <1>4, <1>6, <2>3, <3>2
      <4> QED
        BY <2>3, <4>1 DEF ArtifactInv, RowsNameUploads
    <3> QED
      BY <3>1, <3>2
  <2> QED
    BY <2>1, <2>2, <2>3 DEF RowsNameUploads
<1>8. InsertsAreAlone'
  <2>1. ASSUME NEW v \in Uploads, upload'[v].at = "flushed"
        PROVE  v # u /\ upload'[v] = upload[v] /\ upload[v].key # key /\ upload[v].key \in Keys
    BY <1>0, <1>4, <2>1 DEF ArtifactInv, InsertsAreAlone, UploadRow, key
  <2>2. \A v \in Uploads : upload'[v].at = "flushed" => stored'[upload'[v].key].file = 0
    BY <1>3, <2>1 DEF ArtifactInv, InsertsAreAlone
  <2>3. \A v, w \in Uploads : v # w /\ upload'[v].at = "flushed" /\ upload'[w].at = "flushed"
                                => upload'[v].key # upload'[w].key
    BY <2>1 DEF ArtifactInv, InsertsAreAlone
  <2> QED
    BY <2>2, <2>3 DEF InsertsAreAlone
<1>9. key \notin cleaning
  BY <1>0 DEF ArtifactInv, CleanupIsOfExpired
<1>10. CleanupIsOfExpired'
  <2>1. \A k \in Keys : stored'[k].file = 0 => ~stored'[k].expired
    BY <1>1, <1>3 DEF ArtifactInv, CleanupIsOfExpired
  <2>2. \A k \in Keys : stored'[k].deleted => stored'[k].expired
    BY <1>1, <1>3 DEF ArtifactInv, CleanupIsOfExpired
  <2>3. \A k \in cleaning : stored'[k] = stored[k]
    BY <1>3, <1>9 DEF ArtifactInv, ArtifactTypeOK
  <2> QED
    BY <1>2, <2>1, <2>2, <2>3 DEF ArtifactInv, CleanupIsOfExpired
<1>11. StoredHasItsBytes'
  <2> SUFFICES ASSUME NEW k \in Keys, stored'[k].file # 0
               PROVE  /\ ~stored'[k].expired => <<stored'[k].file, stored'[k].digest>> \in files'
                      /\ stored'[k].deleted => <<stored'[k].file, stored'[k].digest>> \notin files'
    BY DEF StoredHasItsBytes, Persisted
  <2>1. CASE k = key
    BY <1>0, <1>1, <1>2, <1>3, <2>1
  <2>2. CASE k # key
    BY <1>2, <1>3, <2>2 DEF ArtifactInv, StoredHasItsBytes, Persisted
  <2> QED
    BY <2>1, <2>2
<1>12. DoneHasItsEvidence'
  <2>1. \A k \in Keys : stored[k].file # 0 => stored'[k].file # 0
    BY <1>3, <1>6
  <2> QED
    BY <1>2, <2>1, EvidenceStays
<1> QED
  BY <1>5, <1>7, <1>8, <1>10, <1>11, <1>12 DEF ArtifactInv

\* Two rows name files of two uploads.
LEMMA RowsOfDistinctFiles ==
    ASSUME ArtifactInv, NEW k \in Keys, NEW l \in Keys, k # l, stored[k].file # 0, stored[l].file # 0
    PROVE  stored[k].file # stored[l].file
BY DEF ArtifactInv, RowsNameUploads

\* A retention step: rows keep what they name, and only rows change.
LEMMA RetentionStep ==
    ASSUME ArtifactInv, UNCHANGED <<snapshot, runState, ingested, upload>>,
           stored' \in [Keys -> ArtifactRow], files' \subseteq files, cleaning' \subseteq Keys,
           \A k \in Keys : stored'[k].file = stored[k].file /\ stored'[k].digest = stored[k].digest,
           \A v \in Uploads : upload[v].at \in {"moved", "flushed"} => <<v, upload[v].digest>> \in files',
           CleanupIsOfExpired', StoredHasItsBytes'
    PROVE  ArtifactInv'
<1>1. ArtifactTypeOK'
  BY DEF ArtifactInv, ArtifactTypeOK, ArtifactRow
<1>2. RowsNameUploads'
  BY DEF ArtifactInv, RowsNameUploads
<1>3. InsertsAreAlone'
  <2>1. \A v \in Uploads : upload[v].key \in Keys
    BY DEF ArtifactInv, ArtifactTypeOK
  <2> QED
    BY <2>1 DEF ArtifactInv, InsertsAreAlone
<1>4. DoneHasItsEvidence'
  BY EvidenceStays
<1> QED
  BY <1>1, <1>2, <1>3, <1>4 DEF ArtifactInv

\* Retention expires rows and deletes bytes, and may die in between.
LEMMA RetentionSteps ==
    ASSUME ArtifactInv, (\E k \in Keys : ExpireArtifact(k) \/ DeleteBytes(k)) \/ CommitCleanup \/ CleanupDies
    PROVE  ArtifactInv'
<1>0. /\ stored \in [Keys -> ArtifactRow] /\ cleaning \subseteq Keys
      /\ \A k \in Keys : stored[k].file = 0 => ~stored[k].expired
      /\ \A k \in Keys : stored[k].deleted => stored[k].expired
      /\ \A k \in cleaning : stored[k].expired /\ ~stored[k].deleted /\ <<stored[k].file, stored[k].digest>> \notin files
      /\ \A v \in Uploads : upload[v].at \in {"moved", "flushed"} => <<v, upload[v].digest>> \in files
      /\ \A k \in Keys : stored[k].file # 0 =>
            /\ ~stored[k].expired => <<stored[k].file, stored[k].digest>> \in files
            /\ stored[k].deleted => <<stored[k].file, stored[k].digest>> \notin files
  BY DEF ArtifactInv, ArtifactTypeOK, ArtifactRow, CleanupIsOfExpired, RowsNameUploads, StoredHasItsBytes, Persisted
<1>1. ASSUME NEW k \in Keys, ExpireArtifact(k) PROVE ArtifactInv'
  <2>1. /\ stored[k].file # 0 /\ ~stored[k].expired
        /\ stored' = [stored EXCEPT ![k].expired = TRUE]
        /\ UNCHANGED <<snapshot, runState, ingested, files, upload, cleaning>>
    BY <1>1 DEF ExpireArtifact, Persisted
  <2>2. /\ stored' \in [Keys -> ArtifactRow]
        /\ \A l \in Keys \ {k} : stored'[l] = stored[l]
        /\ stored'[k].file = stored[k].file /\ stored'[k].digest = stored[k].digest
        /\ stored'[k].expired /\ ~stored'[k].deleted
    BY <1>0, <2>1 DEF ArtifactRow
  <2>3. k \notin cleaning
    BY <1>0, <2>1
  <2>4. CleanupIsOfExpired'
    <3>1. \A l \in cleaning : l \in Keys \ {k}
      BY <1>0, <2>3
    <3> QED
      BY <1>0, <2>1, <2>2, <3>1 DEF CleanupIsOfExpired
  <2>5. StoredHasItsBytes'
    BY <1>0, <2>1, <2>2 DEF StoredHasItsBytes, Persisted
  <2> QED
    BY <1>0, <2>1, <2>2, <2>4, <2>5, RetentionStep
<1>2. ASSUME NEW k \in Keys, DeleteBytes(k) PROVE ArtifactInv'
  <2>1. /\ stored[k].expired /\ ~stored[k].deleted /\ k \notin cleaning
        /\ files' = files \ {<<stored[k].file, stored[k].digest>>}
        /\ cleaning' = cleaning \cup {k}
        /\ UNCHANGED <<snapshot, runState, ingested, stored, upload>>
    BY <1>2 DEF DeleteBytes
  <2>2. stored[k].file # 0 /\ upload[stored[k].file].at = "ended"
    BY <1>0, <2>1 DEF ArtifactInv, RowsNameUploads
  <2>3. \A v \in Uploads : upload[v].at \in {"moved", "flushed"} => <<v, upload[v].digest>> \in files'
    BY <1>0, <2>1, <2>2
  <2>4. \A l \in Keys \ {k} : stored[l].file # 0 => stored[l].file # stored[k].file
    BY <2>2, RowsOfDistinctFiles
  <2>5. CleanupIsOfExpired'
    BY <1>0, <2>1 DEF CleanupIsOfExpired
  <2>6. StoredHasItsBytes'
    <3> SUFFICES ASSUME NEW l \in Keys, stored[l].file # 0
                 PROVE  /\ ~stored[l].expired => <<stored[l].file, stored[l].digest>> \in files'
                        /\ stored[l].deleted => <<stored[l].file, stored[l].digest>> \notin files'
      BY <2>1 DEF StoredHasItsBytes, Persisted
    <3>1. CASE l = k
      BY <2>1, <3>1
    <3>2. CASE l # k
      BY <1>0, <2>1, <2>4, <3>2
    <3> QED
      BY <3>1, <3>2
  <2> QED
    BY <1>0, <2>1, <2>3, <2>5, <2>6, RetentionStep
<1>3. CASE CommitCleanup
  <2>1. /\ stored' = [k \in Keys |-> IF k \in cleaning THEN [stored[k] EXCEPT !.deleted = TRUE] ELSE stored[k]]
        /\ cleaning' = {} /\ UNCHANGED <<snapshot, runState, ingested, files, upload>>
    BY <1>3 DEF CommitCleanup
  <2>2. \A k \in Keys : /\ stored'[k] \in ArtifactRow
                        /\ stored'[k].file = stored[k].file /\ stored'[k].digest = stored[k].digest
                        /\ stored'[k].expired = stored[k].expired
                        /\ stored'[k].deleted => stored[k].deleted \/ k \in cleaning
    <3> SUFFICES ASSUME NEW k \in Keys
                 PROVE  /\ stored'[k] \in ArtifactRow
                        /\ stored'[k].file = stored[k].file /\ stored'[k].digest = stored[k].digest
                        /\ stored'[k].expired = stored[k].expired
                        /\ stored'[k].deleted => stored[k].deleted \/ k \in cleaning
      OBVIOUS
    <3>1. stored[k] \in ArtifactRow
      BY <1>0
    <3>2. CASE k \in cleaning
      BY <2>1, <3>1, <3>2 DEF ArtifactRow
    <3>3. CASE k \notin cleaning
      BY <2>1, <3>1, <3>3 DEF ArtifactRow
    <3> QED
      BY <3>2, <3>3
  <2>3. stored' \in [Keys -> ArtifactRow]
    <3>1. stored' = [k \in Keys |-> stored'[k]]
      BY <2>1
    <3> QED
      BY <2>2, <3>1
  <2>4. CleanupIsOfExpired'
    <3>1. cleaning' = {}
      BY <2>1
    <3> QED
      BY <1>0, <2>2, <3>1 DEF CleanupIsOfExpired
  <2>5. StoredHasItsBytes'
    <3>1. \A k \in cleaning : k \in Keys /\ stored[k].file # 0
      BY <1>0
    <3> QED
      BY <1>0, <2>1, <2>2 DEF StoredHasItsBytes, Persisted
  <2> QED
    BY <1>0, <2>1, <2>2, <2>3, <2>4, <2>5, RetentionStep
<1>4. CASE CleanupDies
  <2>1. cleaning' = {} /\ UNCHANGED <<snapshot, runState, ingested, stored, files, upload>>
    BY <1>4 DEF CleanupDies
  <2>2. CleanupIsOfExpired' /\ StoredHasItsBytes'
    BY <1>0, <2>1 DEF CleanupIsOfExpired, StoredHasItsBytes, Persisted
  <2> QED
    BY <1>0, <2>1, <2>2, RetentionStep
<1> QED
  BY <1>1, <1>2, <1>3, <1>4

\* Every step keeps the invariant.
LEMMA ArtifactStepKeepsInv == ArtifactInv /\ [NextArtifacts]_artifactVars => ArtifactInv'
<1> SUFFICES ASSUME ArtifactInv, [NextArtifacts]_artifactVars PROVE ArtifactInv'
  OBVIOUS
<1>1. CASE (\E s \in Snapshot : ChooseStages(s)) \/ IngestResults
  BY <1>1, StagesStep
<1>2. CASE \E u \in Uploads : \/ WriteTemp(u) \/ MoveOrRefuse(u) \/ FlushRow(u)
                              \/ CommitRow(u) \/ CommitFails(u) \/ UploadDies(u)
  BY <1>2, UploadSteps, CommitRowStep
<1>3. CASE \E status \in {"captured", "skipped", "dry_run", "none_executed"}, declared \in SUBSET Keys :
             CompleteRun(status, declared)
  BY <1>3, CompleteArtifactsStep
<1>4. CASE (\E k \in Keys : ExpireArtifact(k) \/ DeleteBytes(k)) \/ CommitCleanup \/ CleanupDies
  BY <1>4, RetentionSteps
<1>5. CASE UNCHANGED artifactVars
  BY <1>5 DEF artifactVars, ArtifactInv, ArtifactTypeOK, RowsNameUploads, InsertsAreAlone,
       CleanupIsOfExpired, StoredHasItsBytes, DoneHasItsEvidence, Persisted
<1> QED
  BY <1>1, <1>2, <1>3, <1>4, <1>5 DEF NextArtifacts

-----------------------------------------------------------------------------
\* The invariant of the artifact store: rows name files of ended uploads, an
\* open insert is alone for its key, and cleanup touches expired rows only.
THEOREM ArtifactInvHolds == ArtifactSpec => []ArtifactInv
<1> QED
  BY ArtifactInitHolds, ArtifactStepKeepsInv, PTL DEF ArtifactSpec

\* Type correctness of RawArtifacts.
THEOREM ArtifactTypeCorrect == ArtifactSpec => []ArtifactTypeOK
<1>1. ArtifactInv => ArtifactTypeOK
  BY DEF ArtifactInv
<1> QED
  BY ArtifactInvHolds, <1>1, PTL

\* An artifact within its retention has the bytes of its digest, and a deleted
\* one has none, for any number of overlapping uploads, failures and deaths.
THEOREM StoredKeepsItsBytes == ArtifactSpec => []StoredHasItsBytes
<1>1. ArtifactInv => StoredHasItsBytes
  BY DEF ArtifactInv
<1> QED
  BY ArtifactInvHolds, <1>1, PTL

\* A run completes with the raw output of every stage it ran, and keeps it.
THEOREM DoneKeepsItsEvidence == ArtifactSpec => []DoneHasItsEvidence
<1>1. ArtifactInv => DoneHasItsEvidence
  BY DEF ArtifactInv
<1> QED
  BY ArtifactInvHolds, <1>1, PTL
=============================================================================
