----------------------------- MODULE Conversation -----------------------------
(***************************************************************************)
(* The PAM conversation: PamBackend::converse() and the prompts PamData    *)
(* keeps in the helper, the request in the daemon (AuthRequest) and the    *)
(* display that answers it with the user's name and the password.          *)
(*                                                                         *)
(* PamData guesses the prompts that will follow a first one and asks for   *)
(* all of them at once, so answers are kept from one call of PAM to the    *)
(* next.  A prompt is known by the type its text and echo are taken for;   *)
(* a text that is taken for none is "unknown".  The texts, which only      *)
(* replace one another in a stored prompt, are left out.                   *)
(***************************************************************************)
EXTENDS Sequences, SequencesExt

CONSTANT MaxMessages  \* bound: messages in one call of PAM

ASSUME ConversationAssumption == MaxMessages \in Nat \ {0}

Types == {"user", "password", "current", "new", "repeat", "unknown"}

(* A message of PAM: a prompt of some type, an error, an information, or   *)
(* the information that begins with "Changing password for".               *)
Messages == Types \cup {"error", "info", "changing"}

VARIABLES
  prompts,   \* m_currentRequest: the types and the responses so far
  sent,      \* m_sent
  call,      \* the messages of the running call of PAM, <<>> between calls
  request,   \* the request in the daemon: AuthRequest's prompts
  finished,  \* AuthRequest::Private::finished
  given,     \* what the last call gave to its messages (history)
  announced, \* such an information replaced prompts that were sent (history)
  state      \* "idle", "asked", "failed" (CONV_ERR) or "undefined"

conversationVars == <<prompts, sent, call, request, finished, given, announced, state>>

Prompt == [type : Types, response : {"empty", "name", "pass"}]

ConversationInit ==
  /\ prompts = <<>> /\ sent = FALSE /\ call = <<>>
  /\ request = <<>> /\ finished = TRUE
  /\ given = <<>> /\ announced = FALSE /\ state = "idle"

-------------------------------------------------------------------------------
(* PamData.                                                                *)

Blank(ts) == [i \in DOMAIN ts |-> [type |-> ts[i], response |-> "empty"]]

loginRequest           == Blank(<<"user", "password">>)
changePassRequest      == Blank(<<"current", "new", "repeat">>)
changePassNoOldRequest == Blank(<<"new", "repeat">>)

(* Only a prompt without echo can be taken for anything but the user's     *)
(* name, so errors and informations are looked up as that.                 *)
Detected(m) == IF m \in Types THEN m ELSE "user"

Found(data, m) == {i \in DOMAIN data.prompts : data.prompts[i].type = Detected(m)}

Predicted(m) == CASE m = "user"    -> loginRequest
                  [] m = "current" -> changePassRequest
                  [] m = "new"     -> changePassNoOldRequest
                  [] OTHER         -> <<>>

(* Mutant: what was sent for an earlier prompt stays.                      *)
InsertPromptKeeps(data, m, predict) ==
  IF Found(data, m) # {} THEN [data EXCEPT !.new = ~data.sent]
  ELSE LET guess == IF predict THEN Predicted(m) ELSE <<>> IN
       [data EXCEPT !.prompts = IF guess # <<>> THEN guess ELSE @ \o Blank(<<m>>),
                    !.new = TRUE]

(* insertPrompt(): a stored prompt is asked again unless it was sent;      *)
(* another one follows the ones not sent yet.                              *)
InsertPrompt(data, m, predict) ==
  IF Found(data, m) # {} THEN [data EXCEPT !.new = ~data.sent]
  ELSE LET guess == IF predict THEN Predicted(m) ELSE <<>>
           kept  == IF data.sent THEN <<>> ELSE data.prompts
       IN  [prompts |-> IF guess # <<>> THEN guess ELSE kept \o Blank(<<m>>),
            sent    |-> data.sent /\ data.prompts = <<>>,
            new     |-> TRUE]

(* handleInfo().                                                           *)
HandleInfo(data, predict) == IF predict THEN [data EXCEPT !.prompts = changePassRequest] ELSE data

(* The messages of a call, one after the other.                            *)
Gathered(messages) ==
  FoldLeft(LAMBDA data, m :
             CASE m \in Types    -> InsertPrompt(data, m, Len(messages) = 1)
               [] m = "changing" -> HandleInfo(data, Len(messages) = 1)
               [] OTHER          -> data,
           [prompts |-> prompts, sent |-> sent, new |-> FALSE], messages)

(* Mutant: the answer stays for the next prompt of its type.               *)
GetResponseKeeps(data, m) ==
  IF Found(data, m) = {}
  THEN [data EXCEPT !.sent = @ /\ data.prompts # <<>>, !.given = Append(@, "empty")]
  ELSE LET i == CHOOSE j \in Found(data, m) : TRUE
       IN  [data EXCEPT !.given = Append(@, data.prompts[i].response)]

(* getResponse(): the response of the stored prompt, which is forgotten.   *)
GetResponse(data, m) ==
  IF Found(data, m) = {}
  THEN [data EXCEPT !.sent = @ /\ data.prompts # <<>>, !.given = Append(@, "empty")]
  ELSE LET i == CHOOSE j \in Found(data, m) : TRUE
           left == RemoveAt(data.prompts, i)
       IN  [prompts |-> left, sent |-> data.sent /\ left # <<>>,
            given |-> Append(data.given, data.prompts[i].response)]

(* The end of converse().  resp[i] is written through the i-th pointer     *)
(* after PAM's own, where only the first belongs to it: with more than one *)
(* message the outcome is undefined.                                       *)
Respond(messages, data) ==
  LET end == FoldLeft(GetResponse, [prompts |-> data.prompts, sent |-> data.sent, given |-> <<>>],
                      messages)
  IN  /\ prompts' = end.prompts /\ sent' = end.sent
      /\ given' = end.given /\ call' = messages
      /\ state' = IF Len(messages) = 1 THEN "idle" ELSE "undefined"

-------------------------------------------------------------------------------
(* AuthRequest::setRequest() with the helper's request.                    *)
SetRequest(ps) == request' = ps /\ finished' = FALSE

(* PAM calls converse().  getRequest() is invalid when the prompts have    *)
(* been sent, and nothing is asked then.                                   *)
Converse(messages) ==
  /\ state = "idle"
  /\ LET data == Gathered(messages) IN
     IF data.new /\ ~data.sent
     THEN /\ prompts' = data.prompts /\ sent' = data.sent
          /\ SetRequest(data.prompts)
          /\ call' = messages /\ state' = "asked" /\ UNCHANGED given
     ELSE Respond(messages, data) /\ UNCHANGED <<request, finished>>
  /\ announced' = (announced \/ (messages = <<"changing">> /\ sent))

(* Display::slotRequestChanged(): nothing is answered with more prompts    *)
(* than two.                                                               *)
DisplayAnswer(ps) ==
  CASE Len(ps) = 1 -> {<<"pass">>}
    [] Len(ps) = 2 -> {<<"name", "pass">>}
    [] OTHER       -> {}

(* AuthRequest::done(), the reply, and completeRequest().  The daemon      *)
(* returns the prompts it was sent, so that they match.                    *)
Reply ==
  /\ state = "asked" /\ ~finished
  /\ \E answer \in DisplayAnswer(request) :
       Respond(call, [prompts |-> [i \in DOMAIN request |->
                                     [request[i] EXCEPT !.response = answer[i]]],
                      sent |-> TRUE])
  /\ finished' = TRUE /\ request' = <<>> /\ UNCHANGED announced

(* The connection ends: an invalid answer.                                 *)
NoReply ==
  /\ state = "asked" /\ state' = "failed"
  /\ UNCHANGED <<prompts, sent, call, request, finished, given, announced>>

Calls == UNION {[1 .. n -> Messages] : n \in 1 .. MaxMessages}

ConversationNext == (\E messages \in Calls : Converse(messages)) \/ Reply \/ NoReply

ConversationSpec == ConversationInit /\ [][ConversationNext]_conversationVars
-------------------------------------------------------------------------------
(* What the last call gave to its prompt.                                  *)
LastAnswer(type, response) == state = "idle" /\ call = <<type>> /\ given = <<response>>

(* Whatever is guessed, kept, asked again or answered from the store: the  *)
(* password never goes where the name is asked for, the name to no prompt  *)
(* but the guessed one for a new password (DisplayAnswer puts it first in  *)
(* every pair), and no prompt is answered with nothing, unless prompts     *)
(* that were sent were replaced with ones that were not.                   *)
AnswersFit ==
  /\ ~LastAnswer("user", "pass")
  /\ \A type \in Types \ {"user", "new"} : ~LastAnswer(type, "name")
  /\ announced \/ \A type \in Types : ~LastAnswer(type, "empty")

(* A response is given once: a module that asks again after a rejection    *)
(* is not served the rejected answer from the store.                       *)
AnsweredOnce ==
  state = "idle" /\ sent => \A i \in DOMAIN prompts : prompts[i].type # Detected(call[1])

===============================================================================
