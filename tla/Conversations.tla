---------------------------- MODULE Conversations ----------------------------
(***************************************************************************)
(* One user's AI conversation: the questions stored before the model is    *)
(* asked, the answers stored after it, and the calls that do this at the   *)
(* same time from several browser requests and background tasks.           *)
(*                                                                         *)
(* A call loads the conversation, waits for the model with no lock, and    *)
(* writes in transactions of its own; the objects it loaded stay in its    *)
(* session (expire_on_commit=False), so what it saw can be old.  A message *)
(* is named by its sequence number.  The model's text is left out.         *)
(***************************************************************************)
EXTENDS Naturals, Sequences, FiniteSets

CONSTANTS
    Callers,       \* requests and background tasks of one API process
    MaxQuestions,  \* bound on the questions of the conversation
    None

VARIABLES
    conversation,  \* "NONE", "OPEN" or "DELETED"
    messages,      \* its ai_chat_messages in the order of their sequence
    work           \* what each caller is doing

vars == <<conversation, messages, work>>

Statuses == {"PENDING", "COMPLETED", "FAILED"}
Question == [role : {"user"}, reply : {0}, status : Statuses]
Answer(q) == [role |-> "assistant", reply |-> q, status |-> "COMPLETED"]
NewQuestion == [role |-> "user", reply |-> 0, status |-> "PENDING"]

\* "task" asks and answers in the background, "exchange" asks and answers in one
\* request, "retry" answers a question that is stored already.
Kinds == {"task", "exchange", "retry"}
Steps == {"asking", "loading", "thinking", "saving", "failing"}
Idle == [kind |-> None, step |-> "idle", question |-> 0, count |-> 0, saw |-> None]

TypeOK ==
    /\ conversation \in {"NONE", "OPEN", "DELETED"}
    /\ conversation # "OPEN" => messages = <<>>
    /\ Len(messages) <= 2 * MaxQuestions
    /\ \A n \in DOMAIN messages : messages[n] \in Question \cup {Answer(q) : q \in 1..(n - 1)}
    /\ work \in [Callers ->
          [kind : Kinds, step : Steps, question : 0..(2 * MaxQuestions),
           count : 0..(2 * MaxQuestions), saw : Statuses \cup {None}] \cup {Idle}]

Init ==
    /\ conversation = "NONE" /\ messages = <<>>
    /\ work = [c \in Callers |-> Idle]

Questions == {n \in DOMAIN messages : messages[n].role = "user"}
Answered(q) == \E n \in DOMAIN messages : messages[n].reply = q
RoomForQuestion == Cardinality(Questions) < MaxQuestions

Leave(c) == work' = [work EXCEPT ![c] = Idle]
At(c, s) == work[c].step = s
\* The wrapper of a background task goes on with the question alone.
ToWrapper(c) ==
    work' = [work EXCEPT ![c] =
        [Idle EXCEPT !.kind = "task", !.step = "failing", !.question = work[c].question]]

Fails(c) == IF work[c].kind = "task" THEN ToWrapper(c) ELSE Leave(c)

\* Variant: the message_count of the row the caller loaded earlier.
CountLoaded(c) == work[c].count
\* get_ai_conversation with for_update reads the locked row anew.
Count(c) == Len(messages)
\* The unique (conversation_id, sequence) refuses a number that is taken.
Fits(c) == Count(c) = Len(messages)

-----------------------------------------------------------------------------
(* Asking *)

\* post_project_ai_chat_question: load_ai_chat_context, or no conversation yet.
Ask(c) ==
    /\ At(c, "idle") /\ conversation # "DELETED"
    /\ work' = [work EXCEPT ![c] =
         [Idle EXCEPT !.kind = "task", !.step = "asking", !.count = Len(messages)]]
    /\ UNCHANGED <<conversation, messages>>

\* save_ai_chat_question.  A caller that loaded no conversation creates one; when
\* this one exists by then, the one it creates is another one.
SaveQuestion(c) ==
    /\ At(c, "asking") /\ RoomForQuestion
    /\ IF \/ conversation = "DELETED" \/ ~Fits(c)
          \/ conversation = "OPEN" /\ work[c].count = 0
       THEN Leave(c) /\ UNCHANGED <<conversation, messages>>
       ELSE /\ conversation' = "OPEN"
            /\ messages' = Append(messages, NewQuestion)
            /\ work' = [work EXCEPT ![c].question = Len(messages) + 1,
                                    ![c].count = Len(messages) + 1,
                                    ![c].step = IF work[c].kind = "task" THEN "loading"
                                                ELSE "saving"]

-----------------------------------------------------------------------------
(* The model *)

\* post_project_ai_chat with a stored question, for a background task or again by
\* a request: the conversation and the question are loaded, the other way round it
\* ends with 404.
Load(c, kind, q) ==
    /\ \/ kind = "task" /\ At(c, "loading") /\ q = work[c].question
       \/ kind = "retry" /\ At(c, "idle")
    /\ q \in Questions
    /\ work' = [work EXCEPT ![c] =
         [kind |-> kind, step |-> "thinking", question |-> q,
          count |-> Len(messages), saw |-> messages[q].status]]
    /\ UNCHANGED <<conversation, messages>>

\* The run or the permission is gone, or the conversation; the task's wrapper
\* catches what the request would answer.
LoadFails(c) ==
    /\ At(c, "loading") /\ ToWrapper(c)
    /\ UNCHANGED <<conversation, messages>>

\* The same without a stored question: it is stored when the model has answered.
Exchange(c) ==
    /\ At(c, "idle") /\ conversation # "DELETED"
    /\ work' = [work EXCEPT ![c] =
         [Idle EXCEPT !.kind = "exchange", !.step = "thinking", !.count = Len(messages)]]
    /\ UNCHANGED <<conversation, messages>>

\* complete_json succeeds at the first or the second attempt.
ModelAnswers(c) ==
    /\ At(c, "thinking")
    /\ work' = [work EXCEPT ![c].step = IF work[c].kind = "exchange" THEN "asking" ELSE "saving",
                            ![c].saw = None]
    /\ UNCHANGED <<conversation, messages>>

\* mark_ai_chat_question_failed takes no lock.  The row is written when the status
\* the session holds differs from FAILED, over whatever it is by now.
Mark(q, saw) ==
    messages' = IF q \in Questions /\ saw # "FAILED"
                THEN [messages EXCEPT ![q].status = "FAILED"] ELSE messages

\* Both attempts fail.  A background task raises into its wrapper.
ModelFails(c) ==
    /\ At(c, "thinking")
    /\ Mark(work[c].question, work[c].saw)
    /\ Fails(c)
    /\ UNCHANGED conversation

\* _complete_prepared_project_ai_chat rolls back, so the status is read again.
WrapperMarks(c) ==
    /\ At(c, "failing")
    /\ Mark(work[c].question, None) /\ Leave(c)
    /\ UNCHANGED conversation

-----------------------------------------------------------------------------
(* Answering *)

\* Variant: the answers are not looked through for one to this question.
SaveAnswerAgain(c) ==
    /\ At(c, "saving")
    /\ LET q == work[c].question IN
       IF q \notin Questions \/ ~Fits(c) THEN Fails(c) /\ UNCHANGED messages
       ELSE /\ messages' = Append([messages EXCEPT ![q].status = "COMPLETED"], Answer(q))
            /\ Leave(c)
    /\ UNCHANGED conversation

\* save_ai_chat_answer, with the conversation's row locked up to the commit.  An
\* answer that is there already is kept, and the question's status with it.
SaveAnswer(c) ==
    /\ At(c, "saving")
    /\ LET q == work[c].question IN
       IF q \notin Questions THEN Fails(c) /\ UNCHANGED messages
       ELSE IF Answered(q) THEN Leave(c) /\ UNCHANGED messages
       ELSE IF ~Fits(c) THEN Fails(c) /\ UNCHANGED messages
       ELSE /\ messages' = Append([messages EXCEPT ![q].status = "COMPLETED"], Answer(q))
            /\ Leave(c)
    /\ UNCHANGED conversation

-----------------------------------------------------------------------------

\* delete_ai_conversation; the messages go with their conversation.
Delete ==
    /\ conversation = "OPEN"
    /\ conversation' = "DELETED" /\ messages' = <<>>
    /\ UNCHANGED work

\* The API process is lost with its requests and with ai_chat_tasks.
Restart ==
    /\ \E c \in Callers : ~At(c, "idle")
    /\ work' = [c \in Callers |-> Idle]
    /\ UNCHANGED <<conversation, messages>>

Next ==
    \/ \E c \in Callers :
         \/ Ask(c) \/ SaveQuestion(c) \/ Exchange(c) \/ LoadFails(c)
         \/ ModelAnswers(c) \/ ModelFails(c) \/ WrapperMarks(c) \/ SaveAnswer(c)
         \/ \E kind \in {"task", "retry"}, q \in 1..(2 * MaxQuestions) : Load(c, kind, q)
    \/ Delete \/ Restart

Spec == Init /\ [][Next]_vars

-----------------------------------------------------------------------------
(* Properties *)

Replies(q, ms) == {n \in DOMAIN ms : ms[n].reply = q}

\* What the model answered is stored once and is not lost to another writer: when
\* save_ai_chat_answer ends, a question that still exists has one answer, whoever
\* gave it, and what other callers wrote in the meantime is all there.
AnswersAreKept ==
    [][\A c \in Callers : SaveAnswer(c) /\ work[c].question \in Questions
          => /\ \E n \in DOMAIN messages' : Replies(work[c].question, messages') = {n}
             /\ \A m \in DOMAIN messages : messages'[m].reply = messages[m].reply]_vars
=============================================================================
