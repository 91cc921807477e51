----------------------------- MODULE AgentLoop -----------------------------
(***************************************************************************)
(* The Solana IDE's chat: the model provider's loop of model requests and  *)
(* tool calls, the request of the AI provider service with its paid retry, *)
(* and the tool router's policy check, approval and call.                  *)
(*                                                                         *)
(* The model service, the tools and the quick input are external.  The     *)
(* window shows one quick input at a time: a new one dismisses the last.   *)
(***************************************************************************)
EXTENDS Naturals

CONSTANTS
  Chat,       \* chats whose requests run side by side
  Signature,  \* payment signatures the user may paste
  Window,     \* REPLAY_WINDOW_MS
  MaxTime,    \* bound: the clock
  MaxTools,   \* bound: tool calls of one response
  Nothing, Never

ASSUME LoopAssumption ==
  /\ Nothing \notin Chat /\ Never \notin Nat
  /\ {Window, MaxTime, MaxTools} \subseteq Nat

VARIABLES
  now,        \* Date.now()
  recent,     \* _recentSignatures: when each was used
  permitted,  \* whether the settings allow the servers and tools asked for
  chats,      \* the request of each chat
  shown,      \* the chat whose quick input is shown
  lastPaid    \* history: when a request was last sent with each signature

loopVars == <<now, recent, permitted, chats, shown, lastPaid>>

-----------------------------------------------------------------------------
Time == 0 .. MaxTime

\* A request is sent, sent again to read what has to be paid, waits for a signature,
\* is sent with it, reads the body of a refused response, streams a response, is
\* at its next tool call, waits for the approval, for the server, for the tool.
Chatting == [at : {"idle", "post", "readiness", "payment", "paid", "body", "stream",
                   "tool", "approval", "server", "call", "failed"},
             tools : 0 .. MaxTools,             \* tool calls without a result
             signature : Signature \cup {Nothing},
             charged : BOOLEAN,                 \* the paid request was accepted
             cancelled : BOOLEAN]

LoopTypeOK ==
  /\ now \in Time
  /\ recent \in [Signature -> Time \cup {Never}]
  /\ lastPaid \in [Signature -> Time \cup {Never}]
  /\ permitted \in BOOLEAN
  /\ chats \in [Chat -> Chatting]
  /\ \A c \in Chat :
       chats[c].at \in {"tool", "approval", "server", "call"} => chats[c].tools > 0
  /\ shown \in {c \in Chat : chats[c].at \in {"payment", "approval"}} \cup {Nothing}

Idle == [at |-> "idle", tools |-> 0, signature |-> Nothing, charged |-> FALSE,
         cancelled |-> FALSE]

LoopInit ==
  /\ now = 0
  /\ recent = [s \in Signature |-> Never] /\ lastPaid = [s \in Signature |-> Never]
  /\ permitted \in BOOLEAN
  /\ chats = [c \in Chat |-> Idle] /\ shown = Nothing

-----------------------------------------------------------------------------
(* Helpers.                                                                *)

At(r, at) == [r EXCEPT !.at = at]

Goes(c, at) == chats' = [chats EXCEPT ![c].at = at]

\* The tool call has a result; after the last one the model is asked again.
WithResult(r) ==
  [r EXCEPT !.tools = @ - 1, !.at = IF r.tools = 1 THEN "post" ELSE "tool"]

\* What becomes of a request whose quick input is answered with nothing.
Declined(r) == IF r.at = "payment" THEN At(r, "failed") ELSE WithResult(r)

\* Broken variant: the quick input that is replaced is never resolved.
ShowOnly(c, at) ==
  /\ shown' = c
  /\ chats' = [chats EXCEPT ![c] = At(@, at)]

Show(c, at) ==
  /\ shown' = c
  /\ chats' = [d \in Chat |-> IF d = c THEN At(chats[c], at)
                              ELSE IF d = shown THEN Declined(chats[d])
                              ELSE chats[d]]

\* Broken variant: forgets a signature at the end of the window, not after it.
PurgedAtWindow == [s \in Signature |-> IF recent[s] # Never /\ now - recent[s] >= Window
                                       THEN Never ELSE recent[s]]

\* Signatures whose time is over are forgotten.
Purged == [s \in Signature |-> IF recent[s] # Never /\ now - recent[s] > Window
                               THEN Never ELSE recent[s]]

-----------------------------------------------------------------------------
Tick ==
  /\ now < MaxTime
  /\ now' = now + 1
  /\ UNCHANGED <<recent, permitted, chats, shown, lastPaid>>

ChangePolicy ==
  /\ permitted' = ~permitted
  /\ UNCHANGED <<now, recent, chats, shown, lastPaid>>

SendChatRequest(c) ==
  /\ chats[c].at \in {"idle", "failed"}
  /\ chats' = [chats EXCEPT ![c] = At(Idle, "post")]
  /\ UNCHANGED <<now, recent, permitted, shown, lastPaid>>

\* A cancelled token aborts the fetch; a quick input stays and, as the listener is
\* disposed with the return of the response, so does a stream.
Cancel(c) ==
  /\ chats[c].at \notin {"idle", "failed"}
  /\ chats' = [chats EXCEPT
       ![c].cancelled = TRUE,
       ![c].at = IF @ \in {"post", "readiness", "paid", "body"} THEN "failed" ELSE @]
  /\ UNCHANGED <<now, recent, permitted, shown, lastPaid>>

-----------------------------------------------------------------------------
(* _postOpenAiStreaming.                                                   *)

Responded(c) ==
  /\ chats[c].at = "post"
  /\ \/ Goes(c, "stream")       \* 200
     \/ Goes(c, "readiness")    \* 402
     \/ Goes(c, "failed")       \* another status, or no response
  /\ UNCHANGED <<now, recent, permitted, shown, lastPaid>>

\* fetchWithX402Readiness has sent the request again.  Without a second 402 this is
\* an error, whatever the response.
Readied(c) ==
  /\ chats[c].at = "readiness"
  /\ \/ recent' = Purged /\ Show(c, "payment")
     \/ Goes(c, "failed") /\ UNCHANGED <<recent, shown>>
  /\ UNCHANGED <<now, permitted, lastPaid>>

\* The user pastes a signature.  With a cancelled token the fetch rejects at once.
Pay(c) ==
  /\ shown = c /\ chats[c].at = "payment"
  /\ shown' = Nothing
  /\ \E s \in Signature :
       LET used == recent[s] # Never
           sent == ~used /\ ~chats[c].cancelled
       IN /\ recent' = IF used THEN recent ELSE [recent EXCEPT ![s] = now]
          /\ lastPaid' = IF sent THEN [lastPaid EXCEPT ![s] = now] ELSE lastPaid
          /\ chats' = [chats EXCEPT ![c].at = IF sent THEN "paid" ELSE "failed",
                                    ![c].signature = IF sent THEN s ELSE @]
  /\ UNCHANGED <<now, permitted>>

\* An accepted and a refused paid request both go on to read the body as text.
PaidResponded(c) ==
  /\ chats[c].at = "paid"
  /\ \/ Goes(c, "failed")       \* no response
     \/ \E ok \in BOOLEAN :
          chats' = [chats EXCEPT ![c].at = "body", ![c].charged = ok]
  /\ UNCHANGED <<now, recent, permitted, shown, lastPaid>>

\* The text becomes the message of an error.
BodyRead(c) ==
  /\ chats[c].at = "body"
  /\ Goes(c, "failed")
  /\ UNCHANGED <<now, recent, permitted, shown, lastPaid>>

-----------------------------------------------------------------------------
(* The loop.                                                               *)

\* The stream ends with the tool calls it has brought, or breaks.
StreamEnds(c) ==
  /\ chats[c].at = "stream"
  /\ \E n \in 0 .. MaxTools, at \in {"idle", "tool", "failed"} :
       /\ (at = "tool") = (n > 0)
       /\ chats' = [chats EXCEPT ![c].at = at, ![c].tools = n]
  /\ UNCHANGED <<now, recent, permitted, shown, lastPaid>>

\* executeTool up to the approval.  What the policy or the servers refuse is a
\* result of its own.
ExecuteTool(c) ==
  /\ chats[c].at = "tool"
  /\ \/ permitted /\ Show(c, "approval")
     \/ chats' = [chats EXCEPT ![c] = WithResult(@)] /\ UNCHANGED shown
  /\ UNCHANGED <<now, recent, permitted, lastPaid>>

Approve(c) ==
  /\ shown = c /\ chats[c].at = "approval"
  /\ shown' = Nothing
  /\ Goes(c, "server")
  /\ UNCHANGED <<now, recent, permitted, lastPaid>>

\* The user closes the quick input, or denies the call.
Decline(c) ==
  /\ shown = c
  /\ shown' = Nothing
  /\ chats' = [chats EXCEPT ![c] = Declined(@)]
  /\ UNCHANGED <<now, recent, permitted, lastPaid>>

\* The server has started, or failed to, which is only logged.
ServerStarted(c) ==
  /\ chats[c].at = "server"
  /\ Goes(c, "call")
  /\ UNCHANGED <<now, recent, permitted, shown, lastPaid>>

\* The tool has returned or thrown.
ToolCalled(c) ==
  /\ chats[c].at = "call"
  /\ chats' = [chats EXCEPT ![c] = WithResult(@)]
  /\ UNCHANGED <<now, recent, permitted, shown, lastPaid>>

UserAnswers == \E c \in Chat : Pay(c) \/ Approve(c) \/ Decline(c)

LoopNext ==
  \/ Tick \/ ChangePolicy \/ UserAnswers
  \/ \E c \in Chat :
       \/ SendChatRequest(c) \/ Cancel(c)
       \/ Responded(c) \/ Readied(c) \/ PaidResponded(c) \/ BodyRead(c)
       \/ StreamEnds(c) \/ ExecuteTool(c) \/ ServerStarted(c) \/ ToolCalled(c)

LoopSpec == LoopInit /\ [][LoopNext]_loopVars

\* The user answers or closes what is shown.
LoopFairness == WF_loopVars(UserAnswers)

-----------------------------------------------------------------------------
\* No signature is sent twice within the window, by whatever chats that wait for one
\* at the same time: "The same signature cannot be reused within 60 seconds".
SignatureNotReplayed ==
  [][\A c \in Chat :
       chats[c].at = "payment" /\ chats'[c].at = "paid" =>
         LET s == chats'[c].signature
         IN lastPaid[s] = Never \/ now - lastPaid[s] > Window]_loopVars

\* A request does not wait for an answer for good: not when the question of another
\* chat takes the place of its own, nor when it has been cancelled meanwhile.
QuestionsAreSettled ==
  \A c \in Chat :
    chats[c].at \in {"payment", "approval"} ~> chats[c].at \notin {"payment", "approval"}

\* A request that was paid for and accepted does not end in an error, unless the
\* user cancels it: the prompt asks "to pay and retry once".
PaidIsAnswered ==
  \A c \in Chat :
    chats[c].at = "failed" => ~chats[c].charged \/ chats[c].cancelled
=============================================================================
