------------------------- MODULE ExplicitMessaging -------------------------
(***************************************************************************)
(* ethernetip_master::ExplicitMessaging: one TCP session with a target and *)
(* the requests made through it, by one thread, one call after another.    *)
(*                                                                         *)
(* External are EIPScanner and the target.  Constructing a SessionInfo     *)
(* opens a session or throws, destroying it closes the session.  A target  *)
(* may drop a session at any time.  It serves a request or refuses it with *)
(* a status, and the answer may be lost or late: sendRequest() then        *)
(* throws, as it does when the session is gone.  A request that outlives   *)
(* its call is served before the next one or not at all, so to the caller  *)
(* it might have been served before sendRequest() threw; sendRequest()     *)
(* returns no other request's answer.  One attribute stands for all, and   *)
(* nobody else writes it.                                                  *)
(***************************************************************************)
EXTENDS Naturals, Sequences

CONSTANTS
  Datas,        \* the contents attributes may have: sequences of bytes
  MaxSessions   \* bound: calls of openSession()

ASSUME DatasAssumption == Datas \subseteq Seq(0 .. 255) /\ Datas # {}
ASSUME MaxSessionsAssumption == MaxSessions \in Nat

VARIABLES
  impl,       \* impl_ and in it session
  connected,  \* connected_
  sessions,   \* bound: sessions opened or tried so far; the next one's name
  call,       \* the call that runs, if any
  arg,        \* the data it writes
  answer,     \* what the target has answered to its request
  ret,        \* what the last call returned
  open,       \* the sessions the target has open
  value,      \* the attribute in the target
  possible    \* history: what the caller must expect the attribute to be

mine == <<impl, connected, sessions>>
request == <<call, arg, answer, ret>>
vars == <<mine, request, open, value, possible>>

None == 0                      \* a null impl_
Empty == MaxSessions + 1       \* an Impl whose session is null
Sessions == 1 .. MaxSessions
Requests == {"read", "write", "identity"}
Nothing == [status |-> "none", data |-> <<>>]

Payloads == Datas \cup {<<>>}

TypeOK ==
  /\ impl \in Sessions \cup {None, Empty}
  /\ connected \in BOOLEAN
  /\ sessions \in 0 .. MaxSessions
  /\ call \in Requests \cup {"none", "open"}
  /\ arg \in Payloads
  /\ answer \in [status : {"none", "success", "error"}, data : Payloads]
  /\ ret \in [op : Requests \cup {"none"}, success : BOOLEAN, data : Payloads]
  /\ open \subseteq Sessions
  /\ value \in Datas
  /\ possible \subseteq Datas

Init ==
  /\ impl = None /\ connected = FALSE /\ sessions = 0
  /\ call = "none" /\ arg = <<>> /\ answer = Nothing
  /\ ret = [op |-> "none", success |-> FALSE, data |-> <<>>]
  /\ open = {}
  /\ value \in Datas
  /\ possible = {value}

---------------------------------------------------------------------------
(* openSession() and closeSession(). *)

\* make_unique() is assigned first, which destroys the session before.
OpenSession ==
  /\ call = "none" /\ sessions < MaxSessions
  /\ call' = "open"
  /\ sessions' = sessions + 1
  /\ impl' = Empty
  /\ open' = open \ {impl}
  /\ UNCHANGED <<connected, arg, answer, ret, value, possible>>

OpenReturns ==
  /\ call = "open" /\ call' = "none"
  /\ impl' = sessions /\ connected' = TRUE
  /\ open' = open \cup {sessions}
  /\ UNCHANGED <<sessions, arg, answer, ret, value, possible>>

\* A failed openSession() that leaves connected_ as it was.
OpenThrowsQuietly ==
  /\ call = "open" /\ call' = "none"
  /\ UNCHANGED <<mine, arg, answer, ret, open, value, possible>>

OpenThrows ==
  /\ call = "open" /\ call' = "none"
  /\ connected' = FALSE
  /\ UNCHANGED <<impl, sessions, arg, answer, ret, open, value, possible>>

\* A closeSession() that only looks closed.
CloseFlagOnly ==
  /\ call = "none"
  /\ impl' = None /\ connected' = FALSE
  /\ UNCHANGED <<sessions, request, open, value, possible>>

CloseSession ==
  /\ call = "none"
  /\ impl' = None /\ connected' = FALSE
  /\ open' = open \ {impl}
  /\ UNCHANGED <<sessions, request, value, possible>>

---------------------------------------------------------------------------
(* readAttribute(), writeAttribute() and readIdentity(). *)

Refused == ~connected \/ impl = None

\* Without a session the call returns at once.
Request(op, data) ==
  /\ call = "none"
  /\ arg' = data /\ answer' = Nothing
  /\ IF Refused
       THEN /\ ret' = [op |-> op, success |-> FALSE, data |-> <<>>]
            /\ UNCHANGED <<call, mine, open, value, possible>>
       ELSE /\ call' = op
            /\ UNCHANGED <<ret, mine, open, value, possible>>

ReadAttribute == Request("read", <<>>)
\* The data with a byte too many.
WriteOneMore == \E data \in Datas : Request("write", Append(data, 0))

WriteAttribute == \E data \in Datas : Request("write", data)
ReadIdentity == Request("identity", <<>>)

\* The call returns; after a write the caller expects what it was told, or
\* both contents when it was told nothing certain.
Finish(success, data) ==
  /\ call' = "none"
  /\ ret' = [op |-> call, success |-> success, data |-> data]
  /\ possible' = IF call # "write" THEN possible
                 ELSE {arg} \cup IF success THEN {} ELSE possible
  /\ UNCHANGED <<mine, arg, answer, open, value>>

\* Any answer taken for a good one.
Answered == answer.status # "none"

Succeeded == answer.status = "success"

RequestReturns ==
  /\ call \in Requests /\ answer.status # "none"
  /\ Finish(Succeeded, answer.data)

\* The exception is caught, and connected_ stays as it is.
RequestThrows ==
  /\ call \in Requests
  /\ Finish(FALSE, <<>>)

\* A length of 255 and one, in a byte.
MalformedInAByte(data) == Len(data) < (data[1] + 1) % 256

Malformed(data) == Len(data) < data[1] + 1

\* The bytes readIdentity() makes a string of, if it makes one.
NameBytes(data) ==
  IF data = <<>> THEN {} ELSE IF Malformed(data) THEN {} ELSE 2 .. data[1] + 1

---------------------------------------------------------------------------
(* The target. *)

Serve ==
  /\ call \in Requests /\ answer = Nothing /\ impl \in open
  /\ \/ /\ value' = IF call = "write" THEN arg ELSE value
        /\ answer' = [status |-> "success",
                      data |-> IF call = "write" THEN <<>> ELSE value]
     \/ /\ answer' = [status |-> "error", data |-> <<>>]
        /\ value' = value
  /\ UNCHANGED <<mine, call, arg, ret, open, possible>>

Drop ==
  /\ open # {}
  /\ open' = {}
  /\ UNCHANGED <<mine, request, value, possible>>

Next ==
  \/ OpenSession \/ OpenReturns \/ OpenThrows \/ CloseSession
  \/ ReadAttribute \/ WriteAttribute \/ ReadIdentity
  \/ RequestReturns \/ RequestThrows
  \/ Serve \/ Drop

Spec == Init /\ [][Next]_vars

---------------------------------------------------------------------------
(* Properties. *)

\* A request is never sent through a null session: Refused keeps it out
\* although a failed openSession() leaves an Impl without one.
RequestsHaveSession == call \in Requests => impl \in Sessions

\* The target has no session open but the one held: none is left behind by
\* closeSession(), by opening again or by failing to.
SessionsAccounted == open \subseteq {impl}

\* What readAttribute() returns, if it returns bytes, is what the last
\* writeAttribute() that returned true wrote, or what a later one that
\* returned false tried to write.
ReadYourWrites == ret.data # <<>> => ret.data \in possible

\* readIdentity() stays inside the data, whatever length its first byte
\* announces.
NameInData ==
  ret.op = "identity" => NameBytes(ret.data) \subseteq DOMAIN ret.data

(***************************************************************************)
(* What the proofs need: a session that is being opened has none open, a   *)
(* flag that is up vouches for a session, and the answer and the attribute *)
(* are what the running call can account for.                              *)
(***************************************************************************)
OpenInv == call = "open" => impl = Empty /\ open = {} /\ sessions # 0

FlagVouches == connected /\ call # "open" => impl \in Sessions

CallExplained ==
  /\ call = "write" => arg \in Datas /\ answer.data = <<>>
  /\ call = "write" /\ answer.status = "success" => value = arg
  /\ call # "write" => value \in possible
  /\ value \in possible \cup {arg}
  /\ call \in Requests /\ answer.data # <<>> => answer.data \in possible

MessagingInv ==
  /\ TypeOK /\ OpenInv /\ FlagVouches /\ CallExplained
  /\ RequestsHaveSession /\ SessionsAccounted /\ ReadYourWrites

=============================================================================
