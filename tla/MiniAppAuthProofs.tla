------------------------- MODULE MiniAppAuthProofs --------------------------
(***************************************************************************)
(* Proofs about MiniAppAuth for any payloads, requests and clocks: types,  *)
(* what the guard holds, and one use of a payload under one key.           *)
(***************************************************************************)
EXTENDS MiniAppAuth, TLAPS

\* The sets the types of MiniAppAuth are built from contain what the actions
\* assign.
LEMMA DefectReason ==
  ASSUME NEW p \in Payloads, NEW clock \in Int
  PROVE  Defect(p, clock) # "none" => Defect(p, clock) \in Reasons
BY AuthAssumption DEF Defect, Reasons, Forms, Dated

\* Every step of a request, and time passing, keeps the types.
LEMMA TypeStep ==
  ASSUME TypeOK, [Next]_vars
  PROVE  TypeOK'
<1> USE AuthAssumption DEF TypeOK
<1>1. CASE UNCHANGED vars
  BY <1>1 DEF vars
<1>2. CASE Tick
  BY <1>2 DEF Tick
<1>3. ASSUME NEW q \in Requests, NoInitData(q)
      PROVE  TypeOK'
  BY <1>3 DEF NoInitData, Arrives, Finish, Reasons, Forms
<1>4. ASSUME NEW q \in Requests, Refuse(q)
      PROVE  TypeOK'
  <2>1. PICK clock \in Clocks : /\ Defect(raw[q], clock) # "none"
                                /\ Reject(q, Defect(raw[q], clock))
    BY <1>4 DEF Refuse
  <2>2. clock \in Int /\ raw[q] \in Payloads
    BY <2>1 DEF Clocks
  <2>3. Defect(raw[q], clock) \in Reasons
    BY <2>1, <2>2, DefectReason
  <2> QED
    BY <1>4, <2>1, <2>3 DEF Refuse, Reject, Finish, RecordAudit
<1>5. ASSUME NEW q \in Requests, Check(q)
      PROVE  TypeOK'
  BY <1>5 DEF Check, Arrives
<1>6. ASSUME NEW q \in Requests, FirstUse(q)
      PROVE  TypeOK'
  BY <1>6 DEF FirstUse, Entered, Expiry, Keys, Key
<1>7. ASSUME NEW q \in Requests, Replayed(q)
      PROVE  TypeOK'
  BY <1>7 DEF Replayed, Reject, Finish, RecordAudit, Reasons
<1>8. ASSUME NEW q \in Requests, GuardDown(q)
      PROVE  TypeOK'
  BY <1>8 DEF GuardDown, Entered, Expiry, Keys, Key, Reject, Finish, RecordAudit, Reasons
<1>9. ASSUME NEW q \in Requests, Unauthorized(q)
      PROVE  TypeOK'
  <2>1. CASE raw[q].form = "bot"
    BY <1>9, <2>1 DEF Unauthorized, Reject, Finish, RecordAudit, Reasons, Forms
  <2>2. CASE raw[q].form # "bot"
    BY <1>9, <2>2 DEF Unauthorized, Finish, Reasons
  <2> QED
    BY <2>1, <2>2
<1>10. ASSUME NEW q \in Requests, Serve(q)
       PROVE  TypeOK'
  BY <1>10 DEF Serve, Finish, RecordAudit, Reasons
<1>11. ASSUME NEW q \in Requests, Dies(q)
       PROVE  TypeOK'
  BY <1>11 DEF Dies, Finish, Reasons
<1> QED
  BY <1>1, <1>2, <1>3, <1>4, <1>5, <1>6, <1>7, <1>8, <1>9, <1>10, <1>11 DEF Next, Serving

\* Types, for every behaviour: above all every entry of the guard has an end.
THEOREM TypesHold == Spec => []TypeOK
<1>1. Init => TypeOK
  BY AuthAssumption DEF Init, TypeOK, Reasons, Forms
<1> QED
  BY <1>1, TypeStep, PTL DEF Spec

-----------------------------------------------------------------------------
(* The guard                                                               *)

\* What a clock within its bound tells of a payload it finds no fault with.
LEMMA FreshByClock ==
  ASSUME TypeOK, NEW p \in Payloads, NEW clock \in Clocks, Defect(p, clock) = "none"
  PROVE  /\ p.form \in {"bot", "ok"}
         /\ now - Drift - p.date <= TTL
         /\ p.date - now - Drift <= Skew
<1>1. clock \in Int /\ now - Drift <= clock /\ clock <= now + Drift /\ now \in Int
  BY AuthAssumption DEF Clocks, TypeOK
<1>2. p.form \in Dated /\ p.form # "no_user"
  BY AuthAssumption DEF Defect, Forms, Dated
<1>3. clock - p.date <= TTL /\ p.date - clock <= Skew
  BY <1>1, <1>2, AuthAssumption DEF Defect, Dated
<1> QED
  BY <1>1, <1>2, <1>3, AuthAssumption DEF Dated

\* A step keeps what requests in front of the guard have found out.
LEMMA CheckedStep ==
  ASSUME TypeOK, CheckedInv, [Next]_vars
  PROVE  CheckedInv'
<1> USE AuthAssumption DEF TypeOK, CheckedInv
<1>1. CASE UNCHANGED vars
  BY <1>1 DEF vars
<1>2. CASE Tick
  BY <1>2 DEF Tick
<1>3. ASSUME NEW q \in Requests, Check(q)
      PROVE  CheckedInv'
  <2>1. PICK clock \in Clocks : Defect(raw[q], clock) = "none"
    BY <1>3 DEF Check
  <2>2. raw[q] \in Payloads
    OBVIOUS
  <2>3. /\ raw[q].form \in {"bot", "ok"}
        /\ now - Drift - raw[q].date <= TTL
        /\ raw[q].date - now - Drift <= Skew
    BY <2>1, <2>2, FreshByClock
  <2>4. raw[q].date - raw[q].ahead <= now
    BY <1>3, <2>3 DEF Check, Arrives, Genuine
  <2>5. /\ pc' = [pc EXCEPT ![q] = "guard"]
        /\ checked' = [checked EXCEPT ![q] = now]
        /\ raw' = raw /\ now' = now
    BY <1>3 DEF Check
  <2> QED
    BY <2>2, <2>3, <2>4, <2>5
<1>4. ASSUME NEW q \in Requests,
             NoInitData(q) \/ Refuse(q) \/ Serving(q) \/ GuardDown(q) \/ Dies(q)
      PROVE  CheckedInv'
  <2>1. /\ raw' = raw /\ now' = now /\ checked' = checked
        /\ \E to \in {"authorize", "done"} : pc' = [pc EXCEPT ![q] = to]
    BY <1>4 DEF NoInitData, Refuse, Serving, GuardDown, Dies, FirstUse, Replayed, Unauthorized,
                Serve, Reject, Finish
  <2> QED
    BY <2>1
<1> QED
  BY <1>1, <1>2, <1>3, <1>4 DEF Next

\* The shape of a step as far as the guard and acceptance are concerned.
LEMMA GuardStep ==
  ASSUME TypeOK, [Next]_vars
  PROVE  \/ /\ guard' = guard /\ raw' = raw
            /\ \A q \in Requests : Accepted(q)' => Accepted(q)
         \/ \E q \in Requests : /\ pc[q] = "guard" /\ ~Live(raw[q])
                                /\ guard' = Entered(raw[q])
                                /\ raw' = raw
                                /\ \A r \in Requests : Accepted(r)' => Accepted(r) \/ r = q
<1> USE DEF TypeOK, Accepted
<1>1. CASE UNCHANGED vars
  BY <1>1 DEF vars
<1>2. CASE Tick
  BY <1>2 DEF Tick
<1>3. ASSUME NEW q \in Requests, NoInitData(q) \/ Check(q) \/ Replayed(q) \/ Serve(q) \/ Dies(q)
      PROVE  /\ guard' = guard /\ raw' = raw
             /\ \A r \in Requests : Accepted(r)' => Accepted(r)
  BY <1>3 DEF NoInitData, Check, Replayed, Serve, Dies, Reject, Finish
<1>4. ASSUME NEW q \in Requests, Refuse(q)
      PROVE  /\ guard' = guard /\ raw' = raw
             /\ \A r \in Requests : Accepted(r)' => Accepted(r)
  <2>1. PICK clock \in Clocks : /\ Defect(raw[q], clock) # "none"
                                /\ Reject(q, Defect(raw[q], clock))
    BY <1>4 DEF Refuse
  <2>2. Defect(raw[q], clock) \notin {"served", "unauthorized", "bot"}
    BY AuthAssumption DEF Defect, Dated, Forms
  <2> QED
    BY <1>4, <2>1, <2>2 DEF Refuse, Reject, Finish
<1>5. ASSUME NEW q \in Requests, Unauthorized(q)
      PROVE  /\ guard' = guard /\ raw' = raw
             /\ \A r \in Requests : Accepted(r)' => Accepted(r)
  BY <1>5 DEF Unauthorized, Reject, Finish
<1>6. ASSUME NEW q \in Requests, FirstUse(q)
      PROVE  /\ pc[q] = "guard" /\ ~Live(raw[q])
             /\ guard' = Entered(raw[q])
             /\ raw' = raw
             /\ \A r \in Requests : Accepted(r)' => Accepted(r) \/ r = q
  BY <1>6 DEF FirstUse
<1>7. ASSUME NEW q \in Requests, GuardDown(q)
      PROVE  \/ /\ guard' = guard /\ raw' = raw
                /\ \A r \in Requests : Accepted(r)' => Accepted(r)
             \/ /\ pc[q] = "guard" /\ ~Live(raw[q])
                /\ guard' = Entered(raw[q])
                /\ raw' = raw
                /\ \A r \in Requests : Accepted(r)' => Accepted(r) \/ r = q
  BY <1>7 DEF GuardDown, Reject, Finish
<1> QED
  BY <1>1, <1>2, <1>3, <1>4, <1>5, <1>6, <1>7 DEF Next, Serving

\* Entries are earned, and those of accepted payloads set late enough.
AuthInv == CheckedInv /\ EntryInv /\ EntriesAreEarned /\ AcceptedOnce

LEMMA AuthStep ==
  ASSUME TypeOK, AuthInv, [Next]_vars
  PROVE  AuthInv'
<1> USE AuthAssumption DEF TypeOK
<1>1. CheckedInv'
  BY CheckedStep DEF AuthInv
<1>2. CASE /\ guard' = guard /\ raw' = raw
           /\ \A q \in Requests : Accepted(q)' => Accepted(q)
  BY <1>1, <1>2 DEF AuthInv, EntryInv, EntriesAreEarned, AcceptedOnce, Key, Timely
<1>3. ASSUME NEW q \in Requests,
             pc[q] = "guard" /\ ~Live(raw[q]), guard' = Entered(raw[q]), raw' = raw,
             \A r \in Requests : Accepted(r)' => Accepted(r) \/ r = q
      PROVE  AuthInv'
  <2>1. /\ raw[q].form \in {"bot", "ok"} /\ raw[q] \in Payloads
        /\ checked[q] \in Int /\ now \in Int /\ raw[q].date \in Int
        /\ checked[q] <= now /\ now <= checked[q] + Stall
        /\ checked[q] - Drift - raw[q].date <= TTL
        /\ raw[q].date - checked[q] - Drift <= Skew
        /\ raw[q].date - raw[q].ahead <= checked[q]
    BY <1>3 DEF AuthInv, CheckedInv
  <2> DEFINE k == Key(raw[q])
  <2>2. /\ guard' = [guard EXCEPT ![k] = now + TTL + Grace]
        /\ k \in Keys /\ guard[k] \in Int /\ now > guard[k]
    BY <1>3, <2>1 DEF Entered, Expiry, Live, Keys
  <2>3. \A r \in Requests : Accepted(r) /\ Key(raw[r]) = k => raw[r] = raw[q]
    BY <2>1 DEF AuthInv, EntryInv, Genuine, Key
  <2>4. \A r \in Requests : Accepted(r) /\ Timely(raw[r]) => Key(raw[r]) # k
    <3> SUFFICES ASSUME NEW r \in Requests, Accepted(r), Timely(raw[r]), Key(raw[r]) = k
                 PROVE  FALSE
      OBVIOUS
    <3>1. raw[r] = raw[q] /\ raw[q].ahead \in Nat
      BY <2>1, <2>3
    <3>2. guard[k] >= raw[q].date - raw[q].ahead + TTL + Grace
      BY <3>1 DEF AuthInv, EntryInv
    <3>3. raw[q].ahead + Drift + Stall <= Grace
      BY <3>1 DEF Timely
    <3> HIDE DEF k
    <3> QED
      BY <2>1, <2>2, <3>1, <3>2, <3>3
  <2>5. EntryInv'
    <3> SUFFICES ASSUME NEW r \in Requests, Accepted(r)'
                 PROVE  (/\ raw[r].form \in {"bot", "ok"}
                         /\ guard[Key(raw[r])] >= raw[r].date - raw[r].ahead + TTL + Grace)'
      BY DEF EntryInv
    <3>1. raw[r] \in Payloads /\ Key(raw[r]) \in Keys /\ Key(raw[r])' = Key(raw[r])
      BY <1>3 DEF Keys, Key
    <3>2. CASE Key(raw[r]) = k
      <4>1. raw[r] = raw[q]
        BY <1>3, <2>3, <3>2
      <4>2. guard'[k] = now + TTL + Grace /\ raw[q].ahead \in Nat
        BY <2>1, <2>2
      <4> HIDE DEF k
      <4> QED
        BY <1>3, <2>1, <3>1, <3>2, <4>1, <4>2
    <3>3. CASE Key(raw[r]) # k
      <4>1. Accepted(r)
        BY <1>3, <3>3
      <4>2. guard'[Key(raw[r])] = guard[Key(raw[r])]
        BY <2>2, <3>1, <3>3
      <4> QED
        BY <1>3, <3>1, <4>1, <4>2 DEF AuthInv, EntryInv
    <3> QED
      BY <3>2, <3>3
  <2>6. EntriesAreEarned'
    <3> SUFFICES ASSUME NEW l \in Keys, guard'[l] >= 0
                 PROVE  \E p \in Payloads :
                          /\ Key(p) = l /\ p.form \in {"bot", "ok"}
                          /\ guard'[l] - Grace - TTL <= p.date + TTL + Drift + Stall
                          /\ guard'[l] - Grace - TTL >= p.date - Skew - Drift
      BY DEF EntriesAreEarned
    <3>1. CASE l = k
      <4>1. guard'[l] - Grace - TTL = now
        BY <2>1, <2>2, <3>1
      <4> QED
        BY <2>1, <3>1, <4>1
    <3>2. CASE l # k
      <4>1. guard'[l] = guard[l]
        BY <2>2, <3>2
      <4> QED
        BY <4>1 DEF AuthInv, EntriesAreEarned
    <3> QED
      BY <3>1, <3>2
  <2>7. AcceptedOnce'
    <3> SUFFICES ASSUME NEW r \in Requests, NEW t \in Requests, Accepted(r)', Accepted(t)',
                        Key(raw[r]) = Key(raw[t]), Timely(raw[r])
                 PROVE  r = t
      BY <1>3 DEF AcceptedOnce, Key, Timely
    <3>1. CASE r = q
      BY <1>3, <2>3, <2>4, <3>1
    <3>2. CASE t = q
      BY <1>3, <2>4, <3>2
    <3>3. CASE r # q /\ t # q
      BY <1>3, <3>3 DEF AuthInv, AcceptedOnce
    <3> QED
      BY <3>1, <3>2, <3>3
  <2> QED
    BY <1>1, <2>5, <2>6, <2>7 DEF AuthInv
<1> QED
  BY <1>2, <1>3, GuardStep

\* One use of a payload, with the facts it rests on, for every behaviour.
LEMMA AuthInvHolds == Spec => []AuthInv
<1>1. Init => AuthInv
  BY AuthAssumption DEF Init, AuthInv, CheckedInv, EntryInv, EntriesAreEarned, AcceptedOnce, Accepted
<1>2. AuthInv /\ TypeOK /\ [Next]_vars => AuthInv'
  BY AuthStep
<1> QED
  BY <1>1, <1>2, TypesHold, PTL DEF Spec

\* However many copies of a payload with one text of its hash reach however many
\* replicas, Verify accepts one of them at most, if the grace covers what the
\* clocks disagree by. (Under another text the payload has another key.)
THEOREM OneUse == Spec => []AcceptedOnce
<1>1. AuthInv => AcceptedOnce
  BY DEF AuthInv
<1> QED
  BY <1>1, AuthInvHolds, PTL

\* The guard never has an entry for a payload that is not genuine or was not
\* fresh when it was checked.
THEOREM EntriesEarned == Spec => []EntriesAreEarned
<1>1. AuthInv => EntriesAreEarned
  BY DEF AuthInv
<1> QED
  BY <1>1, AuthInvHolds, PTL

\* There is no time at which an accepted payload would pass the freshness check
\* of some replica and the guard has forgotten it.
THEOREM NoGap == Spec => []SpentWhileFresh
<1>1. TypeOK /\ AuthInv => SpentWhileFresh
  <2> SUFFICES ASSUME TypeOK, AuthInv, NEW q \in Requests, Accepted(q),
                      Timely(raw[q]), NEW clock \in Clocks, Defect(raw[q], clock) = "none"
               PROVE  Live(raw[q])
    BY DEF SpentWhileFresh
  <2>1. /\ raw[q] \in Payloads /\ guard[Key(raw[q])] \in Int /\ now \in Int
        /\ raw[q].date \in Int /\ raw[q].ahead \in Nat
    BY AuthAssumption DEF TypeOK, Keys
  <2>2. now - Drift - raw[q].date <= TTL
    BY <2>1, FreshByClock
  <2>3. guard[Key(raw[q])] >= raw[q].date - raw[q].ahead + TTL + Grace
    BY DEF AuthInv, EntryInv
  <2> QED
    BY <2>1, <2>2, <2>3, AuthAssumption DEF Live, Timely
<1> QED
  BY <1>1, AuthInvHolds, TypesHold, PTL
=============================================================================
