----------------------------- MODULE AgentSession -----------------------------
(***************************************************************************)
(* One terminal of the chat: its sessions on disk (chat_session_store.py), *)
(* the input loop (cli/chat.py), the tool loop of the agent                *)
(* (agent_loop.py) with the hooks that ask the user (hooks/,               *)
(* tools/tool_base/registry.py), and the copy of the history that is sent  *)
(* to the model (context_manager.py).                                      *)
(*                                                                         *)
(* The user may interrupt, the model and the file system may fail, and the *)
(* process may die at any step, also in the middle of a write: the session *)
(* files are written in place.                                             *)
(*                                                                         *)
(* A message is [kind, n, calls]: a query of the user, a reply that calls  *)
(* the tools `calls` (its n-th call is <<n, i>>), the results of the calls *)
(* `calls` of reply n, or a summary that stands for the first n messages   *)
(* of the history.  A reply that calls tools and yet ends the turn, since  *)
(* the model was cut off, is "cut" here; the code has no such mark.  Every *)
(* message is as long as any other.                                        *)
(***************************************************************************)
EXTENDS Naturals, Sequences, FiniteSets, SequencesExt

CONSTANTS
    Sessions,      \* session ids
    Tools,         \* tools the model calls
    NeedsApproval, \* those the user must approve, call by call
    RecoveryTools, \* those the loop may try by itself after a failure
    Recent,        \* messages a compaction keeps
    Threshold,     \* estimate from which a request is compacted
    Ratios,        \* measured over estimated size of a request, in halves
    Budget         \* bounds: starts, queries, replies, aborts, switches

NoSession == "none"
NoObject  == 0

ASSUME SizesAssumption ==
    /\ Recent \in Nat \ {0} /\ Threshold \in Nat \ {0} /\ Ratios \subseteq Nat
    /\ Budget \in [{"starts", "switches", "queries", "replies", "aborts"} -> Nat]
    /\ NoSession \notin Sessions

Message(kind, n, calls) == [kind |-> kind, n |-> n, calls |-> calls]

\* What stands in place of a transcript when there is no file, or only the
\* beginning of one.
Absent == <<Message("absent", 0, <<>>)>>
Torn   == <<Message("torn", 0, <<>>)>>

VARIABLES
    chat,    \* the process: pc, session and history in memory, what it is doing
    context, \* its ContextManager: the compacted copy, and of which list it is one
    files,   \* files[s]: the transcript of session s
    active,  \* active_session.json
    work,    \* of this process: finished batches; of the last one: calls that ran, approvals
    left     \* what is left of the budget

vars == <<chat, context, files, active, work, left>>

Off == [pc |-> "off", session |-> NoSession, history |-> <<>>, object |-> NoObject, next |-> "off",
        safe |-> 0, outbound |-> <<>>, answers |-> <<>>, recoveries |-> 0]

\* The estimate is 1.15 times the characters at first: two halves.
NewContext == [source |-> NoObject, count |-> 0, copy |-> <<>>, calibration |-> 2]

NoWork == [ran |-> {}, approved |-> {}, finished |-> {}]

Init ==
    /\ chat = Off
    /\ context = NewContext
    /\ files = [s \in Sessions |-> Absent]
    /\ active = NoSession
    /\ work = NoWork
    /\ left = Budget

Spend(what) ==
    /\ left[what] > 0
    /\ left' = [left EXCEPT ![what] = @ - 1]

-----------------------------------------------------------------------------
(* Sessions *)

Readable(s) == s \in Sessions /\ files[s] \notin {Absent, Torn}

\* Continues with session s, whose transcript is a new list of this process.
Opened(s, transcript, pc) ==
    [chat EXCEPT !.pc = pc, !.next = "input", !.session = s, !.history = transcript, !.object = @ + 1]

CreateSession ==
    \E s \in Sessions : files[s] = Absent /\ chat' = Opened(s, <<>>, "save")

Activate(s) == Readable(s) /\ chat' = Opened(s, files[s], "activate")

\* A new chat, one that resumes the active session if it can be read, or one
\* with a session by name.
StartChat ==
    /\ chat.pc = "off"
    /\ Spend("starts")
    /\ \/ CreateSession
       \/ IF Readable(active) THEN chat' = Opened(active, files[active], "input") ELSE CreateSession
       \/ \E s \in Sessions : Activate(s)
    /\ UNCHANGED <<context, files, active, work>>

\* :new and :use.
SwitchSession ==
    /\ chat.pc = "input"
    /\ Spend("switches")
    /\ CreateSession \/ \E s \in Sessions : Activate(s)
    /\ work' = NoWork
    /\ UNCHANGED <<context, files, active>>

WriteSession ==
    /\ chat.pc = "save"
    /\ files' = [files EXCEPT ![chat.session] = chat.history]
    /\ chat' = [chat EXCEPT !.pc = "activate"]
    /\ UNCHANGED <<context, active, work, left>>

WriteActive ==
    /\ chat.pc = "activate"
    /\ active' = chat.session
    /\ chat' = [chat EXCEPT !.pc = chat.next]
    /\ UNCHANGED <<context, files, work, left>>

\* The user leaves, the terminal closes, or an error of the store or an
\* interrupt during a write ends the program.
Die ==
    /\ chat.pc # "off"
    /\ \/ UNCHANGED <<files, active>>
       \/ chat.pc = "save" /\ files' = [files EXCEPT ![chat.session] = Torn]
                                    /\ UNCHANGED active
       \/ chat.pc = "activate" /\ active' = NoSession /\ UNCHANGED files
    /\ chat' = Off
    /\ context' = NewContext
    /\ work' = NoWork
    /\ UNCHANGED left

-----------------------------------------------------------------------------
(* One request *)

\* A number for a message that is new to its session.
Fresh == Budget.replies + Budget.queries - left.replies - left.queries + 1

\* The query is saved before the loop runs.
AskQuery ==
    /\ chat.pc = "input"
    /\ Spend("queries")
    /\ chat' = [chat EXCEPT !.pc = "save", !.next = "build", !.recoveries = 0,
                            !.history = Append(@, Message("query", Fresh, <<>>)),
                            !.safe = Len(chat.history) + 1]
    /\ UNCHANGED <<context, files, active, work>>

\* Mutant: A request that fails is taken back with its query.
RolledBackRequest ==
    LET queries == {i \in DOMAIN chat.history : chat.history[i].kind = "query"}
    IN  SubSeq(chat.history, 1, (CHOOSE i \in queries : \A j \in queries : j <= i) - 1)

\* What follows the last complete exchange is taken back.
RolledBack == SubSeq(chat.history, 1, chat.safe)

Raised == [chat EXCEPT !.pc = "save", !.next = "input", !.history = RolledBack,
                       !.outbound = <<>>, !.answers = <<>>]

\* The user interrupts, or the summary, the model or its stream fails.
Abort ==
    /\ chat.pc \in {"build", "request", "tools"}
    /\ Spend("aborts")
    /\ chat' = Raised
    /\ work' = [NoWork EXCEPT !.finished = work.finished]
    /\ UNCHANGED <<context, files, active>>

-----------------------------------------------------------------------------
(* The copy that is sent *)

TooLong(messages) == Len(messages) * context.calibration >= Threshold

\* Mutant: The boundary may fall between a call and its result.
BoundaryAnywhere(messages) == IF Len(messages) > Recent THEN Len(messages) - Recent ELSE 0

\* How many messages are summarised: results keep their reply.
Boundary(messages) ==
    LET older == IF Len(messages) > Recent THEN Len(messages) - Recent ELSE 0
    IN  IF older > 0 /\ messages[older + 1].kind = "results" THEN older - 1 ELSE older

Compacted(messages) ==
    LET older   == Boundary(messages)
        stands  == IF messages[1].kind = "summary" THEN messages[1].n + older - 1 ELSE older
    IN  IF older = 0 THEN messages
        ELSE <<Message("summary", stands, <<>>)>> \o SubSeq(messages, older + 1, Len(messages))

\* Mutant: Any history that is long enough continues the copy.
ReusesByLength == context.source # NoObject /\ Len(chat.history) >= context.count

\* The copy is continued only for the very list it was made of.
Reuses ==
    /\ context.source # NoObject /\ context.source = chat.object
    /\ Len(chat.history) >= context.count

BuildContext ==
    /\ chat.pc = "build"
    /\ LET copied == IF Reuses
                     THEN context.copy \o SubSeq(chat.history, context.count + 1, Len(chat.history))
                     ELSE chat.history
           sent   == IF TooLong(copied) THEN Compacted(copied) ELSE copied
       IN  /\ chat' = [chat EXCEPT !.pc = "request", !.outbound = sent]
           /\ context' = IF Reuses \/ TooLong(copied)
                         THEN [context EXCEPT !.source = chat.object, !.copy = sent,
                                              !.count = Len(chat.history)]
                         ELSE [NewContext EXCEPT !.calibration = context.calibration]
    /\ UNCHANGED <<files, active, work, left>>

\* Mutant: The correction of the estimate is not limited.
ObservedUnlimited(ratio) == ratio

\* The correction stays between a half and three.
Observed(ratio) == IF ratio < 1 THEN 1 ELSE IF ratio > 6 THEN 6 ELSE ratio

-----------------------------------------------------------------------------
(* The model and the tools *)

Answers(reply, results) ==
    /\ results.kind = "results" /\ results.n = reply.n
    /\ Range(results.calls) = DOMAIN reply.calls

\* Every call of a reply that was not cut off is answered by the next message,
\* and nothing else is.
Conversation(messages) ==
    \A i \in DOMAIN messages :
        /\ messages[i].kind = "reply" /\ messages[i].calls # <<>> =>
              i < Len(messages) /\ Answers(messages[i], messages[i + 1])
        /\ messages[i].kind = "results" =>
              i > 1 /\ messages[i - 1].kind = "reply" /\ Answers(messages[i - 1], messages[i])

\* What the model accepts: a conversation in which no call is left open.
ProtocolValid(messages) ==
    Conversation(messages) /\ \A i \in DOMAIN messages : messages[i].kind # "cut"

ReplyKind(stop, calls) == IF stop = "end" /\ calls # <<>> THEN "cut" ELSE "reply"

\* A reply that announces calls is followed by them, or has none at all; any
\* other ends the request, with the calls it may have made before it was cut off.
Respond ==
    /\ chat.pc = "request"
    /\ ProtocolValid(chat.outbound)
    /\ Spend("replies")
    /\ \E calls \in {<<>>} \cup UNION {[1..k -> Tools] : k \in 1..2}, stop \in {"end", "tool_use"} :
          chat' = [chat EXCEPT !.pc = IF stop = "end" THEN "save" ELSE "tools",
                           !.next = "input", !.outbound = <<>>, !.answers = <<>>,
                           !.history = Append(@, Message(ReplyKind(stop, calls), Fresh, calls))]
    /\ \E ratio \in Ratios : context' = [context EXCEPT !.calibration = Observed(ratio)]
    /\ UNCHANGED <<files, active, work>>

Reply == Last(chat.history)

\* The service refuses a request that is no conversation, and the loop a reply
\* that announces calls and has none.
RaiseInvalid ==
    /\ chat.pc \in {"request", "tools"}
    /\ chat.pc = "request" => ~ProtocolValid(chat.outbound)
    /\ chat.pc = "tools" => Reply.calls = <<>>
    /\ chat' = Raised
    /\ UNCHANGED <<context, files, active, work, left>>

NextCall == [id |-> <<Reply.n, Len(chat.answers) + 1>>, tool |-> Reply.calls[Len(chat.answers) + 1]]

\* Mutant: A tool once approved is not asked about again.
PermittedOnce(call, granted) ==
    \/ call.tool \notin NeedsApproval
    \/ granted
    \/ \E ran \in work.ran : ran.tool = call.tool

\* The hook asks the user before every call of a tool that needs it.
Permitted(call, granted) == call.tool \notin NeedsApproval \/ granted

Answered == [chat EXCEPT !.answers = Append(@, Len(@) + 1)]

Ran(calls) == work.ran \cup calls

\* A call is answered whether it runs, fails or is denied.
CallTool ==
    /\ chat.pc = "tools"
    /\ Len(chat.answers) < Len(Reply.calls)
    /\ \E granted \in IF NextCall.tool \in NeedsApproval THEN BOOLEAN ELSE {FALSE} :
          work' = [work EXCEPT !.ran = IF Permitted(NextCall, granted) THEN Ran({NextCall}) ELSE @,
                               !.approved = IF granted THEN @ \cup {NextCall.id} ELSE @]
    /\ chat' = Answered
    /\ UNCHANGED <<context, files, active, left>>

\* A failure that names a better tool is repaired once in a request, when
\* neither tool needs the user.
RecoverCall ==
    /\ chat.pc = "tools"
    /\ Len(chat.answers) < Len(Reply.calls)
    /\ chat.recoveries = 0
    /\ \E tool \in RecoveryTools \ {NextCall.tool} :
          /\ {tool, NextCall.tool} \cap NeedsApproval = {}
          /\ work' = [work EXCEPT !.ran = Ran({NextCall, [id |-> NextCall.id \o <<"recovery">>,
                                                          tool |-> tool]})]
    /\ chat' = [Answered EXCEPT !.recoveries = 1]
    /\ UNCHANGED <<context, files, active, left>>

\* Mutant: The exchange is not marked as complete.
FinishBatchUnsafe ==
    /\ chat.pc = "tools"
    /\ Reply.calls # <<>> /\ Len(chat.answers) = Len(Reply.calls)
    /\ chat' = [chat EXCEPT !.pc = "build", !.answers = <<>>,
                            !.history = Append(@, Message("results", Reply.n, chat.answers))]
    /\ work' = [NoWork EXCEPT !.finished = work.finished \cup {Reply}]
    /\ UNCHANGED <<context, files, active, left>>

FinishBatch ==
    /\ chat.pc = "tools"
    /\ Reply.calls # <<>> /\ Len(chat.answers) = Len(Reply.calls)
    /\ chat' = [chat EXCEPT !.pc = "build", !.answers = <<>>, !.safe = Len(chat.history) + 1,
                            !.history = Append(@, Message("results", Reply.n, chat.answers))]
    /\ work' = [NoWork EXCEPT !.finished = work.finished \cup {Reply}]
    /\ UNCHANGED <<context, files, active, left>>

-----------------------------------------------------------------------------

Next ==
    \/ StartChat \/ SwitchSession \/ WriteSession \/ WriteActive \/ Die
    \/ AskQuery \/ Abort \/ BuildContext \/ Respond \/ RaiseInvalid
    \/ CallTool \/ RecoverCall \/ FinishBatch

Spec == Init /\ [][Next]_vars

-----------------------------------------------------------------------------
(* Properties *)

TypeOK ==
    /\ chat.pc \in {"off", "input", "save", "activate", "build", "request", "tools"}
    /\ chat.next \in {"off", "input", "build"}
    /\ chat.session \in Sessions \cup {NoSession} /\ active \in Sessions \cup {NoSession}
    /\ chat.safe \in 0..Len(chat.history) \/ chat.pc \in {"input", "save", "activate"}
    /\ context.calibration \in 1..6 /\ context.count \in Nat
    /\ \A what \in DOMAIN left : left[what] \in Nat

\* Whatever was interrupted, failed, taken back, compacted or continued from an
\* earlier copy: only the calls of a reply that was itself cut off are ever left
\* open in a request that goes out.  Any other request is a conversation the model
\* accepts (agent_loop.py:204, 243, context_manager.py:372).
RequestsProtocolValid == chat.pc = "request" => Conversation(chat.outbound)

\* What goes out is this session's history and all of it, its older part as a
\* summary of exactly the messages that were left out
\* (context_manager.py:144, 354).
RequestCoversHistory ==
    chat.pc = "request" =>
        \/ chat.outbound = chat.history
        \/ /\ chat.outbound # <<>> /\ Head(chat.outbound).kind = "summary"
           /\ Head(chat.outbound).n \in 1..Len(chat.history)
           /\ Tail(chat.outbound) = SubSeq(chat.history, Head(chat.outbound).n + 1, Len(chat.history))

\* When the user can type again, the file holds what the process holds, and the
\* calls of every batch that was finished are in it with their results, also
\* when the request was interrupted or failed afterwards
\* (agent_loop.py:241, cli/chat.py:187).
WorkRemembered ==
    chat.pc = "input" =>
        /\ files[chat.session] = chat.history
        /\ \A reply \in work.finished :
              \E i \in DOMAIN chat.history \ {1} :
                  chat.history[i - 1] = reply /\ Answers(reply, chat.history[i])

\* A transcript only ever grows, until a write is cut off
\* (chat_session_store.py:75, agent_loop.py:247).
TranscriptsGrow ==
    [][\A s \in Sessions : Readable(s) =>
          files'[s] = Torn \/ IsPrefix(files[s], files'[s])]_vars

\* A tool that needs approval runs only under the user's approval of that very
\* call, never under that of another one and never as a recovery
\* (permission_hook.py:47, agent_loop.py:608).
ApprovalsHonoured ==
    \A ran \in work.ran : ran.tool \in NeedsApproval => ran.id \in work.approved

\* Interrupts, failures, compaction, switches and restarts lose nothing and let nothing
\* through: what goes out is complete, and valid but for replies that were cut off, what was done is on disk when the user
\* can type again, and what needed an approval had it.
SessionSound ==
    RequestsProtocolValid /\ RequestCoversHistory /\ WorkRemembered /\ ApprovalsHonoured

=============================================================================
