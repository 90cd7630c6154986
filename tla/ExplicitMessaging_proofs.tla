---------------------- MODULE ExplicitMessaging_proofs ----------------------
(***************************************************************************)
(* Proofs about ExplicitMessaging, for all contents of attributes and any  *)
(* number of sessions.                                                     *)
(***************************************************************************)
EXTENDS ExplicitMessaging, SequenceTheorems, TLAPS

LEMMA SessionNames ==
  /\ None \notin Sessions /\ Empty \notin Sessions /\ None # Empty
  /\ \A s \in 0 .. MaxSessions : s # 0 => s \in Sessions
  BY MaxSessionsAssumption DEF None, Empty, Sessions

LEMMA InitInv == Init => MessagingInv
  <1> SUFFICES ASSUME Init PROVE MessagingInv
    OBVIOUS
  <1>1. /\ ret \in [op : Requests \cup {"none"}, success : BOOLEAN, data : Payloads]
        /\ answer \in [status : {"none", "success", "error"}, data : Payloads]
    BY DEF Init, Nothing, Payloads
  <1>2. impl \in Sessions \cup {None, Empty} /\ sessions \in 0 .. MaxSessions
    BY MaxSessionsAssumption DEF Init
  <1>3. TypeOK
    BY <1>1, <1>2 DEF Init, TypeOK, Payloads
  <1>4. OpenInv /\ FlagVouches /\ RequestsHaveSession /\ SessionsAccounted
    BY DEF Init, OpenInv, FlagVouches, RequestsHaveSession, SessionsAccounted, Requests
  <1>5. CallExplained /\ ReadYourWrites
    BY DEF Init, CallExplained, ReadYourWrites, Nothing, Requests
  <1> QED BY <1>3, <1>4, <1>5 DEF MessagingInv

(***************************************************************************)
(* The session half: which sessions are open and which one is used.        *)
(***************************************************************************)
SessionInv == OpenInv /\ FlagVouches /\ RequestsHaveSession /\ SessionsAccounted

LEMMA SessionStep == TypeOK /\ SessionInv /\ [Next]_vars => SessionInv'
  <1> SUFFICES ASSUME TypeOK, SessionInv, [Next]_vars PROVE SessionInv'
    OBVIOUS
  <1> USE SessionNames, MaxSessionsAssumption
      DEF SessionInv, OpenInv, FlagVouches, RequestsHaveSession, SessionsAccounted, Requests
  <1>1. CASE UNCHANGED vars
    BY <1>1 DEF vars, mine, request
  <1>2. CASE OpenSession
    BY <1>2 DEF OpenSession, TypeOK
  <1>3. CASE OpenReturns
    BY <1>3 DEF OpenReturns, TypeOK
  <1>4. CASE OpenThrows
    BY <1>4 DEF OpenThrows
  <1>5. CASE CloseSession
    BY <1>5 DEF CloseSession, request
  <1>6. ASSUME NEW op \in Requests, NEW data, Request(op, data) PROVE SessionInv'
    BY <1>6 DEF Request, Refused, mine
  <1>7. ASSUME NEW success, NEW data, call \in Requests, Finish(success, data)
        PROVE  SessionInv'
    BY <1>7 DEF Finish, mine
  <1>8. CASE Serve
    BY <1>8 DEF Serve, mine
  <1>9. CASE Drop
    BY <1>9 DEF Drop, mine, request
  <1>10. CASE ReadAttribute \/ WriteAttribute \/ ReadIdentity
    <2>1. "read" \in Requests /\ "write" \in Requests /\ "identity" \in Requests
      OBVIOUS
    <2> HIDE DEF SessionInv, Requests
    <2> QED BY <1>6, <1>10, <2>1 DEF ReadAttribute, WriteAttribute, ReadIdentity
  <1>11. CASE RequestReturns \/ RequestThrows
    <2> HIDE DEF SessionInv, Requests
    <2> QED BY <1>7, <1>11 DEF RequestReturns, RequestThrows
  <1> HIDE DEF SessionInv
  <1> QED
    BY <1>1, <1>2, <1>3, <1>4, <1>5, <1>8, <1>9, <1>10, <1>11 DEF Next

(***************************************************************************)
(* The types.                                                              *)
(***************************************************************************)
LEMMA TypeStep == TypeOK /\ MessagingInv /\ [Next]_vars => TypeOK'
  <1> SUFFICES ASSUME MessagingInv, TypeOK, [Next]_vars PROVE TypeOK'
    OBVIOUS
  <1> USE SessionNames, MaxSessionsAssumption DEF TypeOK
  <1>1. CASE UNCHANGED vars
    BY <1>1 DEF vars, mine, request
  <1>2. CASE OpenSession
    BY <1>2 DEF OpenSession
  <1>3. CASE OpenReturns
    BY <1>3 DEF OpenReturns, MessagingInv, OpenInv
  <1>4. CASE OpenThrows
    BY <1>4 DEF OpenThrows
  <1>5. CASE CloseSession
    BY <1>5 DEF CloseSession, request
  <1>6. ASSUME NEW op \in Requests, NEW data \in Payloads, Request(op, data)
        PROVE  TypeOK'
    <2>1. op \in {"read", "write", "identity"} /\ <<>> \in Payloads
      BY DEF Requests, Payloads
    <2>2. /\ [status |-> "none", data |-> <<>>]
               \in [status : {"none", "success", "error"}, data : Payloads]
          /\ [op |-> op, success |-> FALSE, data |-> <<>>]
               \in [op : Requests \cup {"none"}, success : BOOLEAN, data : Payloads]
      BY <2>1
    <2>3. /\ arg' \in Payloads /\ call' \in Requests \cup {"none", "open"}
          /\ answer' \in [status : {"none", "success", "error"}, data : Payloads]
      BY <1>6, <2>2 DEF Request, Nothing
    <2>4. ret' \in [op : Requests \cup {"none"}, success : BOOLEAN, data : Payloads]
      BY <1>6, <2>2 DEF Request
    <2>5. UNCHANGED <<mine, open, value, possible>>
      BY <1>6 DEF Request
    <2> QED BY <2>3, <2>4, <2>5 DEF mine
  <1>7. ASSUME NEW success \in BOOLEAN, NEW data \in Payloads, call \in Requests,
               Finish(success, data)
        PROVE  TypeOK'
    <2>1. arg \in Datas \/ call # "write"
      BY DEF MessagingInv, CallExplained
    <2>2. possible' = possible \/ (call = "write" /\ possible' \subseteq possible \cup {arg})
      BY <1>7 DEF Finish
    <2>3. possible' \subseteq Datas
      BY <2>1, <2>2
    <2>4. ret' \in [op : Requests \cup {"none"}, success : BOOLEAN, data : Payloads]
      BY <1>7 DEF Finish
    <2>5. UNCHANGED <<mine, arg, answer, open, value>> /\ call' = "none"
      BY <1>7 DEF Finish
    <2> QED BY <2>3, <2>4, <2>5 DEF mine
  <1>8. CASE Serve
    BY <1>8 DEF Serve, mine, Payloads, MessagingInv, CallExplained
  <1>9. CASE Drop
    BY <1>9 DEF Drop, mine, request
  <1>10. <<>> \in Payloads /\ Datas \subseteq Payloads /\ answer.data \in Payloads
    BY DEF Payloads
  <1>11. "read" \in Requests /\ "write" \in Requests /\ "identity" \in Requests
    BY DEF Requests
  <1>12. CASE ReadAttribute \/ WriteAttribute \/ ReadIdentity
    BY <1>6, <1>10, <1>11, <1>12 DEF ReadAttribute, WriteAttribute, ReadIdentity
  <1>13. CASE RequestReturns \/ RequestThrows
    <2>1. Succeeded \in BOOLEAN
      BY DEF Succeeded
    <2> QED BY <1>7, <1>10, <1>13, <2>1 DEF RequestReturns, RequestThrows
  <1> QED
    BY <1>1, <1>2, <1>3, <1>4, <1>5, <1>8, <1>9, <1>12, <1>13 DEF Next

(***************************************************************************)
(* The data half: what the caller may conclude.                            *)
(***************************************************************************)
DataInv == CallExplained /\ ReadYourWrites

LEMMA DataStep == TypeOK /\ DataInv /\ [Next]_vars => DataInv'
  <1> SUFFICES ASSUME TypeOK, DataInv, [Next]_vars PROVE DataInv'
    OBVIOUS
  <1> USE DEF DataInv, CallExplained, ReadYourWrites
  <1>1. CASE UNCHANGED vars
    BY <1>1 DEF vars, mine, request
  <1>2. CASE OpenSession \/ OpenReturns \/ OpenThrows
    BY <1>2 DEF OpenSession, OpenReturns, OpenThrows, Requests
  <1>3. CASE CloseSession \/ Drop
    BY <1>3 DEF CloseSession, Drop, request
  <1>4. ASSUME NEW op \in Requests, NEW data, Request(op, data),
               op = "write" => data \in Datas
        PROVE  DataInv'
    BY <1>4 DEF Request, Nothing
  <1>5. CASE RequestReturns
    <2>1. CASE call = "write"
      BY <1>5, <2>1 DEF RequestReturns, Finish, Succeeded, TypeOK, Requests
    <2>2. CASE call # "write"
      <3>1. /\ possible' = possible /\ call' = "none"
            /\ ret'.data = answer.data /\ UNCHANGED <<arg, answer, value>>
        BY <1>5, <2>2 DEF RequestReturns, Finish
      <3>2. call \in Requests
        BY <1>5 DEF RequestReturns
      <3> QED BY <2>2, <3>1, <3>2 DEF Requests
    <2> QED BY <2>1, <2>2
  <1>6. CASE RequestThrows
    <2>1. CASE call = "write"
      BY <1>6, <2>1 DEF RequestThrows, Finish, Requests
    <2>2. CASE call # "write"
      BY <1>6, <2>2 DEF RequestThrows, Finish, Requests
    <2> QED BY <2>1, <2>2
  <1>7. CASE Serve
    BY <1>7 DEF Serve, Requests
  <1>8. CASE ReadAttribute \/ WriteAttribute \/ ReadIdentity
    BY <1>4, <1>8 DEF ReadAttribute, WriteAttribute, ReadIdentity, Requests
  <1> QED
    BY <1>1, <1>2, <1>3, <1>5, <1>6, <1>7, <1>8 DEF Next

(***************************************************************************)
(* The inductive invariant: types, sessions and data.                      *)
(***************************************************************************)
THEOREM Invariance == Spec => []MessagingInv
  <1>1. MessagingInv /\ [Next]_vars => MessagingInv'
    BY TypeStep, SessionStep, DataStep DEF MessagingInv, SessionInv, DataInv
  <1> QED BY InitInv, <1>1, PTL DEF Spec

\* Every variable keeps its type.
THEOREM TypeCorrect == Spec => []TypeOK
  BY Invariance, PTL DEF MessagingInv

\* No request goes through a null session, however openSession() failed.
THEOREM NoRequestWithoutSession == Spec => []RequestsHaveSession
  BY Invariance, PTL DEF MessagingInv

\* Nothing but the session held is ever open.
THEOREM NoSessionLeftBehind == Spec => []SessionsAccounted
  BY Invariance, PTL DEF MessagingInv

\* What is read is what was confirmed, or what was tried since.
THEOREM ReadsAreExplained == Spec => []ReadYourWrites
  BY Invariance, PTL DEF MessagingInv

\* readIdentity() stays inside every answer.
THEOREM NameStaysInData == Spec => []NameInData
  <1>1. ASSUME NEW data \in Payloads PROVE NameBytes(data) \subseteq DOMAIN data
    <2>1. CASE data = <<>>
      BY <2>1 DEF NameBytes
    <2>2. CASE data # <<>>
      <3>1. data \in Seq(0 .. 255) /\ Len(data) \in Nat \ {0}
        BY <2>2, DatasAssumption DEF Payloads
      <3>2. data \in [1 .. Len(data) -> 0 .. 255] /\ DOMAIN data = 1 .. Len(data)
        BY <3>1, LenProperties
      <3>3. data[1] \in 0 .. 255
        <4>1. 1 \in 1 .. Len(data)
          BY <3>1
        <4> QED BY <3>2, <4>1
      <3>4. CASE Malformed(data)
        BY <3>4, <2>2 DEF NameBytes
      <3>5. CASE ~Malformed(data)
        <4>1. data[1] + 1 <= Len(data)
          <5>1. ASSUME NEW length \in Nat, NEW first \in 0 .. 255, ~(length < first + 1)
                PROVE  first + 1 <= length
            BY <5>1
          <5> QED BY <5>1, <3>5, <3>1, <3>3 DEF Malformed
        <4>2. NameBytes(data) = 2 .. data[1] + 1
          BY <3>5, <2>2 DEF NameBytes
        <4>3. 2 .. data[1] + 1 \subseteq 1 .. Len(data)
          <5>1. ASSUME NEW length \in Nat, NEW first \in 0 .. 255, first + 1 <= length
                PROVE  2 .. first + 1 \subseteq 1 .. length
            BY <5>1
          <5> QED BY <5>1, <3>1, <3>3, <4>1
        <4> QED BY <4>2, <4>3, <3>2
      <3> QED BY <3>4, <3>5
    <2> QED BY <2>1, <2>2
  <1>2. TypeOK => NameInData
    BY <1>1 DEF TypeOK, NameInData
  <1> QED BY <1>2, TypeCorrect, PTL
=============================================================================
