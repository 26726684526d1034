-------------------------- MODULE RequestBodyLimit --------------------------
(***************************************************************************)
(* middleware.py: RequestBodyLimitMiddleware reads a whole request body    *)
(* before the application sees any of it, refuses it above max_body_bytes, *)
(* and replays it to the application, which then receives from the server  *)
(* itself.                                                                 *)
(*                                                                         *)
(* The requests of an application share nothing here, so there is one.     *)
(***************************************************************************)
EXTENDS Integers, Sequences, SequencesExt, FiniteSums

CONSTANTS
  MaxBodyBytes,  \* max_body_bytes
  Sizes,         \* the sizes of body chunks that clients send
  Lengths,       \* the lengths that clients declare
  NoLength,      \* no content-length header
  Garbage,       \* one that int() does not take
  MaxMessages    \* bound: messages of one body

ASSUME BodyLimitAssumption == MaxBodyBytes \in Nat \ {0}
ASSUME ClientAssumption ==
  Sizes \subseteq Nat /\ Lengths \subseteq Int /\ MaxMessages \in Nat \ {0}

VARIABLES
  scope,     \* scope["type"], or "none" between requests
  declared,  \* the content-length header
  body,      \* where the middleware is
  messages,  \* what it has received, to be replayed
  consumed,  \* bytes among them
  index,     \* message_index
  received,  \* history: what the server's receive returned
  got        \* history: what the application received

bodyVars == <<scope, declared, body, messages, consumed, index, received, got>>

Chunk(size, more) == [type |-> "http.request", size |-> size, more |-> more]
Disconnect == [type |-> "http.disconnect", size |-> 0, more |-> FALSE]
Message == {Chunk(size, more) : size \in Sizes, more \in BOOLEAN} \cup {Disconnect}

BodyTypeOK ==
  /\ scope \in {"none", "http", "websocket"}
  /\ declared \in Lengths \cup {NoLength, Garbage}
  /\ body \in {"start", "reading", "app", "rejected"}
  /\ {messages, received, got} \subseteq Seq(Message)
  /\ index \in 0..Len(messages) /\ consumed \in Nat

BodyInit ==
  /\ scope = "none" /\ declared = NoLength /\ body = "start" /\ consumed = 0
  /\ index = 0 /\ messages = << >> /\ received = << >> /\ got = << >>

\* A call of the middleware, or the end of one.
Call(sc, length) ==
  /\ scope' = sc /\ declared' = length /\ body' = "start" /\ consumed' = 0
  /\ index' = 0 /\ messages' = << >> /\ received' = << >> /\ got' = << >>

\* A body is over with its last chunk, or when the client goes away.
Ended(ms) == ms # << >> /\ ~ Last(ms).more

\* What the server's receive returns next.
NextMessages(ms) ==
  IF Ended(ms) THEN {Disconnect}
  ELSE {m \in Message : m.more => Len(ms) + 1 < MaxMessages}

\* int(content_length), 0 where that fails or there is no header.
DeclaredLength == IF declared \in {NoLength, Garbage} THEN 0 ELSE declared

-----------------------------------------------------------------------------
BodyArrives(sc, length) == scope = "none" /\ Call(sc, length)

\* Mutant: a declared length is trusted, whatever is sent then.
ChecksTrusting ==
  /\ scope # "none" /\ body = "start"
  /\ body' = IF scope # "http" \/ (declared \in Lengths /\ declared <= MaxBodyBytes)
             THEN "app"
             ELSE IF DeclaredLength > MaxBodyBytes THEN "rejected" ELSE "reading"
  /\ UNCHANGED <<scope, declared, messages, consumed, index, received, got>>

\* Other scopes pass; a declared length above the limit is refused at once.
Checks ==
  /\ scope # "none" /\ body = "start"
  /\ body' = IF scope # "http" THEN "app"
             ELSE IF DeclaredLength > MaxBodyBytes THEN "rejected" ELSE "reading"
  /\ UNCHANGED <<scope, declared, messages, consumed, index, received, got>>

\* One turn of the loop.
Reads(m) ==
  /\ body = "reading" /\ m \in NextMessages(received)
  /\ received' = Append(received, m) /\ messages' = Append(messages, m)
  /\ consumed' = consumed + m.size
  /\ body' = IF consumed' > MaxBodyBytes THEN "rejected"
             ELSE IF m.more THEN "reading" ELSE "app"
  /\ UNCHANGED <<scope, declared, index, got>>

\* Mutant: message_index is not advanced.
AppReceivesSticky ==
  /\ body = "app"
  /\ IF index < Len(messages)
     THEN got' = Append(got, messages[index + 1]) /\ UNCHANGED <<index, received>>
     ELSE \E m \in NextMessages(received) :
             received' = Append(received, m) /\ got' = Append(got, m) /\ UNCHANGED index
  /\ UNCHANGED <<scope, declared, body, messages, consumed>>

\* replay_receive, or receive itself for other scopes.
AppReceives ==
  /\ body = "app"
  /\ IF index < Len(messages)
     THEN got' = Append(got, messages[index + 1]) /\ index' = index + 1
                 /\ UNCHANGED received
     ELSE \E m \in NextMessages(received) :
             received' = Append(received, m) /\ got' = Append(got, m) /\ UNCHANGED index
  /\ UNCHANGED <<scope, declared, body, messages, consumed>>

BodyLeaves == Call("none", NoLength)

-----------------------------------------------------------------------------
Bytes(ms) == Total([i \in DOMAIN ms |-> ms[i].size])

\* The application receives what the server received, in that order, each
\* message once, although the middleware received it first.
ReplayInOrder ==
  /\ IsPrefix(got, received)
  /\ got # received => got \o SubSeq(messages, index + 1, Len(messages)) = received

\* The limit is exact, however a body is cut into chunks and whatever length it
\* declares: the application receives nothing above it, and nothing of a body
\* that is refused; refused is only what is above it or declared to be.
LimitIsExact ==
  /\ scope = "http" => Bytes(got) <= MaxBodyBytes
  /\ body = "rejected" =>
       got = << >> /\ MaxBodyBytes < IF received = << >> THEN declared ELSE Bytes(received)
=============================================================================
