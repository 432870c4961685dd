-------------------------- MODULE AgentSessionProofs --------------------------
(***************************************************************************)
(* What a terminal promises its user, for any number of sessions, tools,    *)
(* queries, replies, switches, interrupts and deaths: what goes out covers  *)
(* the whole history, finished batches are in the transcript, transcripts   *)
(* grow, a tool that needs an approval had it, and a request leaves no call *)
(* open but those of a reply that was cut off.                              *)
(*                                                                          *)
(* The proof follows one number, the length of the history up to the last   *)
(* complete exchange (chat.safe).  Inside the loop the history is at most   *)
(* one reply longer, the transcript on disk, the finished batches and the   *)
(* part that the compacted copy stands for are not longer.  Hence nothing of *)
(* them is lost when an interrupt takes the rest back.                      *)
(***************************************************************************)
EXTENDS AgentSession, SequenceTheorems, TLAPS

Calls == Seq(Tools) \cup Seq(Nat)
Kept == [kind : {"query", "reply", "cut", "results"}, n : Nat, calls : Calls]
Sent == [kind : {"query", "reply", "cut", "results", "summary"}, n : Nat, calls : Calls]

Pc == {"off", "input", "save", "activate", "build", "request", "tools"}
Chat == [pc : Pc, session : Sessions \cup {NoSession}, history : Seq(Kept), object : Nat,
         next : {"off", "input", "build"}, safe : Nat, outbound : Seq(Sent),
         answers : Seq(Nat), recoveries : {0, 1}]
Context == [source : Nat, count : Nat, copy : Seq(Sent), calibration : 1..6]

Types ==
    /\ chat \in Chat
    /\ context \in Context
    /\ files \in [Sessions -> Seq(Kept) \cup {Absent, Torn}]
    /\ active \in Sessions \cup {NoSession}
    /\ work = [ran |-> work.ran, approved |-> work.approved, finished |-> work.finished]
    /\ work.finished \subseteq Kept
    /\ left \in [{"starts", "switches", "queries", "replies", "aborts"} -> Nat]
    /\ left.queries <= Budget.queries /\ left.replies <= Budget.replies

-----------------------------------------------------------------------------
(* The inductive invariant *)

Begins(shorter, longer) ==
    /\ Len(shorter) <= Len(longer)
    /\ \A i \in 1..Len(shorter) : shorter[i] = longer[i]

\* How much of the history an interrupt leaves.
Settled == IF chat.pc = "tools" THEN chat.safe ELSE Len(chat.history)

Places ==
    /\ chat.pc = "off" => chat = Off /\ context = NewContext /\ work = NoWork
    /\ chat.pc # "off" => /\ chat.session \in Sessions /\ chat.object # NoObject
                          /\ chat.next \in {"input", "build"}
    /\ chat.pc \in {"save", "activate"} /\ chat.next = "build" =>
          chat.safe = Len(chat.history)
    /\ chat.pc \in {"build", "request"} => chat.safe = Len(chat.history)
    /\ chat.pc = "tools" =>
          /\ Len(chat.history) = chat.safe + 1
          /\ Reply.kind = "reply" /\ Reply.calls \in Seq(Tools)
          /\ Len(chat.answers) <= Len(Reply.calls)
          /\ \A i \in 1..Len(chat.answers) : chat.answers[i] = i

\* The transcript on disk is the beginning of the history that will stay.
Saved ==
    /\ chat.pc \in {"input", "activate"} => files[chat.session] = chat.history
    /\ chat.pc = "save" =>
          \/ files[chat.session] = Absent
          \/ Readable(chat.session) /\ Begins(files[chat.session], chat.history)
    /\ chat.pc \in {"build", "request", "tools"} =>
          /\ Readable(chat.session) /\ Begins(files[chat.session], chat.history)
          /\ Len(files[chat.session]) <= chat.safe

\* `messages` stand for the first k messages of the history: they are these, or begin
\* with a summary of the older ones.
Covers(messages, history, k) ==
    \/ Len(messages) = k /\ \A i \in 1..k : messages[i] = history[i]
    \/ /\ messages # <<>> /\ messages[1].kind = "summary"
       /\ messages[1].n \in 1 .. k - 1
       /\ Len(messages) = 1 + k - messages[1].n
       /\ \A i \in 2..Len(messages) : messages[i] = history[messages[1].n + i - 1]

CopyCovers ==
    /\ context.source <= chat.object
    /\ context.source = chat.object /\ context.source # NoObject =>
          /\ context.count <= Settled
          /\ Covers(context.copy, chat.history, context.count)

RequestCovers == chat.pc = "request" => Covers(chat.outbound, chat.history, Len(chat.history))

FinishedKept ==
    \A reply \in work.finished :
        \E i \in 2..Settled : chat.history[i - 1] = reply /\ Answers(reply, chat.history[i])

SessionInv ==
    /\ Types /\ Places /\ Saved /\ CopyCovers /\ RequestCovers /\ FinishedKept
    /\ ApprovalsHonoured

\* The first k messages are a conversation.
ValidUpTo(messages, k) ==
    \A i \in 1..k :
        /\ messages[i].kind = "reply" /\ messages[i].calls # <<>> =>
              i < k /\ Answers(messages[i], messages[i + 1])
        /\ messages[i].kind = "results" =>
              i > 1 /\ messages[i - 1].kind = "reply" /\ Answers(messages[i - 1], messages[i])

\* A summary is not followed by results without their reply.
CutBeforeReply(messages) ==
    messages # <<>> /\ messages[1].kind = "summary" =>
        Len(messages) >= 2 /\ messages[2].kind # "results"

ValidInv ==
    /\ ValidUpTo(chat.history, Settled)
    /\ \A s \in Sessions : Readable(s) => ValidUpTo(files[s], Len(files[s]))
    /\ context.source # NoObject => CutBeforeReply(context.copy)
    /\ chat.pc = "request" => CutBeforeReply(chat.outbound)

-----------------------------------------------------------------------------
(* Lemmas about sequences of messages *)

LEMMA AppendFacts ==
    ASSUME NEW S, NEW h \in Seq(S), NEW x \in S
    PROVE  /\ Append(h, x) \in Seq(S) /\ Len(Append(h, x)) = Len(h) + 1
           /\ \A i \in 1..Len(h) : Append(h, x)[i] = h[i]
           /\ Append(h, x)[Len(h) + 1] = x
BY AppendProperties

LEMMA PrefixFacts ==
    ASSUME NEW S, NEW h \in Seq(S), NEW k \in 0..Len(h)
    PROVE  /\ SubSeq(h, 1, k) \in Seq(S) /\ Len(SubSeq(h, 1, k)) = k
           /\ \A i \in 1..k : SubSeq(h, 1, k)[i] = h[i]
<1>1. Len(h) \in Nat /\ \A i \in 1..k : h[i] \in S
  BY LenProperties, ElementOfSeq
<1>2. 1 \in Int /\ k \in Int
  BY <1>1
<1>3. /\ SubSeq(h, 1, k) \in Seq(S)
      /\ Len(SubSeq(h, 1, k)) = IF 1 <= k THEN k - 1 + 1 ELSE 0
      /\ \A i \in 1 .. k - 1 + 1 : SubSeq(h, 1, k)[i] = h[1 + i - 1]
  BY <1>1, <1>2, SubSeqProperties
<1>4. QED
  BY <1>1, <1>3

\* What is said of the first k messages depends on these only.
LEMMA SameCovers ==
    ASSUME NEW g, NEW h, NEW k \in Nat, \A i \in 1..k : g[i] = h[i],
           NEW messages, Len(messages) \in Nat, Covers(messages, h, k)
    PROVE  Covers(messages, g, k)
<1>1. CASE Len(messages) = k /\ \A i \in 1..k : messages[i] = h[i]
  BY <1>1 DEF Covers
<1>2. CASE /\ messages # <<>> /\ messages[1].kind = "summary"
           /\ messages[1].n \in 1 .. k - 1
           /\ Len(messages) = 1 + k - messages[1].n
           /\ \A i \in 2..Len(messages) : messages[i] = h[messages[1].n + i - 1]
  <2>1. PICK n \in 1 .. k - 1 : n = messages[1].n /\ Len(messages) = 1 + k - n
    BY <1>2
  <2>2. ASSUME NEW i \in 2..Len(messages) PROVE messages[i] = g[n + i - 1]
    <3> DEFINE l == Len(messages)
    <3>a. l \in Nat /\ l = 1 + k - n /\ i \in 2..l
      BY <2>1
    <3> HIDE DEF l
    <3>1. n + i - 1 \in 1..k
      BY <3>a
    <3>2. messages[i] = h[n + i - 1]
      BY <1>2, <2>1
    <3>3. QED
      BY <3>1, <3>2
  <2>3. QED
    BY <1>2, <2>1, <2>2 DEF Covers
<1>3. QED
  BY <1>1, <1>2 DEF Covers

LEMMA SameValid ==
    ASSUME NEW g, NEW h, NEW k \in Nat, \A i \in 1..k : g[i] = h[i], ValidUpTo(h, k)
    PROVE  ValidUpTo(g, k)
<1>1. SUFFICES ASSUME NEW i \in 1..k
               PROVE  /\ g[i].kind = "reply" /\ g[i].calls # <<>> =>
                            i < k /\ Answers(g[i], g[i + 1])
                      /\ g[i].kind = "results" =>
                            i > 1 /\ g[i - 1].kind = "reply" /\ Answers(g[i - 1], g[i])
  BY DEF ValidUpTo
<1>2. /\ h[i].kind = "reply" /\ h[i].calls # <<>> => i < k /\ Answers(h[i], h[i + 1])
      /\ h[i].kind = "results" => i > 1 /\ h[i - 1].kind = "reply" /\ Answers(h[i - 1], h[i])
  BY DEF ValidUpTo
<1>3. g[i] = h[i] /\ (i < k => g[i + 1] = h[i + 1]) /\ (i > 1 => g[i - 1] = h[i - 1])
  <2>1. (i < k => i + 1 \in 1..k) /\ (i > 1 => i - 1 \in 1..k)
    OBVIOUS
  <2>2. QED
    BY <2>1
<1>4. QED
  BY <1>2, <1>3

LEMMA SameFinished ==
    ASSUME NEW g, NEW h, NEW k \in Nat, NEW m \in Nat, k <= m, \A i \in 1..k : g[i] = h[i],
           NEW reply, \E i \in 2..k : h[i - 1] = reply /\ Answers(reply, h[i])
    PROVE  \E i \in 2..m : g[i - 1] = reply /\ Answers(reply, g[i])
<1>1. PICK i \in 2..k : h[i - 1] = reply /\ Answers(reply, h[i])
  OBVIOUS
<1>2. i \in 2..m /\ i \in 1..k /\ i - 1 \in 1..k
  OBVIOUS
<1>3. g[i] = h[i] /\ g[i - 1] = h[i - 1]
  BY <1>2
<1>4. g[i - 1] = reply /\ Answers(reply, g[i])
  BY <1>1, <1>3
<1>5. QED
  BY <1>2, <1>4

LEMMA ValidIsConversation ==
    ASSUME NEW S, NEW messages \in Seq(S), ValidUpTo(messages, Len(messages))
    PROVE  Conversation(messages)
BY LenProperties DEF ValidUpTo, Conversation

\* A message that needs no answer keeps a conversation valid.
LEMMA ValidAppend ==
    ASSUME NEW S, NEW h \in Seq(S), NEW x \in S, ValidUpTo(h, Len(h)),
           x.kind # "results", x.kind = "reply" => x.calls = <<>>
    PROVE  ValidUpTo(Append(h, x), Len(h) + 1)
<1> DEFINE g == Append(h, x)
<1>1. Len(h) \in Nat
  BY LenProperties
<1>2. /\ \A i \in 1..Len(h) : g[i] = h[i]
      /\ g[Len(h) + 1] = x
  BY AppendFacts
<1>3. ValidUpTo(g, Len(h))
  <2> HIDE DEF g
  <2>1. QED
    BY <1>1, <1>2, SameValid
<1> HIDE DEF g
<1>4. ASSUME NEW i \in 1..Len(h) + 1
      PROVE  /\ g[i].kind = "reply" /\ g[i].calls # <<>> =>
                   i < Len(h) + 1 /\ Answers(g[i], g[i + 1])
             /\ g[i].kind = "results" =>
                   i > 1 /\ g[i - 1].kind = "reply" /\ Answers(g[i - 1], g[i])
  <2>1. CASE i = Len(h) + 1
    BY <1>2, <2>1
  <2>2. CASE i # Len(h) + 1
    <3>1. i \in 1..Len(h) /\ (i < Len(h) => i < Len(h) + 1)
      BY <1>1, <2>2
    <3>2. QED
      BY <1>3, <3>1 DEF ValidUpTo
  <2>3. QED
    BY <2>1, <2>2
<1>5. ValidUpTo(g, Len(h) + 1)
  BY <1>4 DEF ValidUpTo
<1>6. QED
  BY <1>5 DEF g


-----------------------------------------------------------------------------
(* Lemmas about the copy that is sent *)

LEMMA KeptIsSent ==
    /\ Kept \subseteq Sent
    /\ \A h \in Seq(Kept) : h \in Seq(Sent) /\ \A i \in 1..Len(h) : h[i].kind # "summary"
<1>1. Kept \subseteq Sent
  BY DEF Kept, Sent
<1>2. ASSUME NEW h \in Seq(Kept) PROVE h \in Seq(Sent)
  BY <1>1, SeqMonotonic
<1>3. ASSUME NEW h \in Seq(Kept), NEW i \in 1..Len(h) PROVE h[i].kind # "summary"
  <2>1. h[i] \in Kept
    BY ElementOfSeq
  <2>2. QED
    BY <2>1 DEF Kept
<1>4. QED
  BY <1>1, <1>2, <1>3

LEMMA CoversWhole ==
    ASSUME NEW h \in Seq(Kept)
    PROVE  Covers(h, h, Len(h))
BY DEF Covers

\* The rest of a history, put after the copy of its first k messages.
LEMMA ExtendedFacts ==
    ASSUME NEW h \in Seq(Kept), NEW m \in Seq(Sent), NEW k \in 0..Len(h)
    PROVE  LET sent == m \o SubSeq(h, k + 1, Len(h)) IN
           /\ sent \in Seq(Sent) /\ Len(sent) = Len(m) + Len(h) - k
           /\ \A i \in 1..Len(m) : sent[i] = m[i]
           /\ \A i \in 1 .. Len(h) - k : sent[Len(m) + i] = h[k + i]
<1> DEFINE rest == SubSeq(h, k + 1, Len(h))
           sent == m \o rest
<1>1. Len(h) \in Nat /\ Len(m) \in Nat /\ k \in Nat
  BY LenProperties
<1>2. \A i \in k + 1 .. Len(h) : h[i] \in Sent
  <2>1. \A i \in 1..Len(h) : h[i] \in Kept
    BY ElementOfSeq
  <2>2. QED
    BY <1>1, <2>1, KeptIsSent
<1>3. k + 1 \in Int /\ Len(h) \in Int
  BY <1>1
<1>4. /\ rest \in Seq(Sent)
      /\ Len(rest) = IF k + 1 <= Len(h) THEN Len(h) - (k + 1) + 1 ELSE 0
      /\ \A i \in 1 .. Len(h) - (k + 1) + 1 : rest[i] = h[k + 1 + i - 1]
  BY <1>2, <1>3, SubSeqProperties
<1>5. Len(rest) = Len(h) - k /\ \A i \in 1 .. Len(h) - k : rest[i] = h[k + i]
  BY <1>1, <1>4
<1> HIDE DEF rest
<1>6. /\ sent \in Seq(Sent) /\ Len(sent) = Len(m) + Len(rest)
      /\ \A i \in 1 .. Len(m) + Len(rest) :
            sent[i] = IF i <= Len(m) THEN m[i] ELSE rest[i - Len(m)]
  BY <1>4, ConcatProperties
<1> HIDE DEF sent
<1>7. \A i \in 1..Len(m) : sent[i] = m[i]
  BY <1>1, <1>5, <1>6
<1>8. ASSUME NEW i \in 1 .. Len(h) - k PROVE sent[Len(m) + i] = h[k + i]
  <2>1. Len(m) + i \in 1 .. Len(m) + Len(rest) /\ ~(Len(m) + i <= Len(m))
    BY <1>1, <1>5
  <2>2. sent[Len(m) + i] = rest[Len(m) + i - Len(m)]
    BY <1>6, <2>1
  <2>3. Len(m) + i - Len(m) = i
    BY <1>1
  <2>4. QED
    BY <1>5, <2>2, <2>3
<1>9. Len(sent) = Len(m) + Len(h) - k
  BY <1>1, <1>5, <1>6
<1>10. QED
  BY <1>6, <1>7, <1>8, <1>9 DEF sent, rest

LEMMA CoversExtended ==
    ASSUME NEW h \in Seq(Kept), NEW m \in Seq(Sent), NEW k \in 0..Len(h), Covers(m, h, k)
    PROVE  Covers(m \o SubSeq(h, k + 1, Len(h)), h, Len(h))
<1> DEFINE sent == m \o SubSeq(h, k + 1, Len(h))
<1>1. Len(h) \in Nat /\ Len(m) \in Nat /\ k \in Nat
  BY LenProperties
<1>2. /\ sent \in Seq(Sent) /\ Len(sent) = Len(m) + Len(h) - k
      /\ \A i \in 1..Len(m) : sent[i] = m[i]
      /\ \A i \in 1 .. Len(h) - k : sent[Len(m) + i] = h[k + i]
  BY ExtendedFacts
<1> HIDE DEF sent
<1>3. CASE Len(m) = k /\ \A i \in 1..k : m[i] = h[i]
  <2>1. Len(sent) = Len(h)
    BY <1>1, <1>2, <1>3
  <2>2. ASSUME NEW i \in 1..Len(h) PROVE sent[i] = h[i]
    <3>1. CASE i <= k
      BY <1>1, <1>2, <1>3, <3>1
    <3>2. CASE i > k
      <4>1. i - k \in 1 .. Len(h) - k /\ Len(m) + (i - k) = i /\ k + (i - k) = i
        BY <1>1, <1>3, <3>2
      <4>2. QED
        BY <1>2, <4>1
    <3>3. QED
      BY <1>1, <3>1, <3>2
  <2>3. QED
    BY <2>1, <2>2 DEF Covers, sent
<1>4. CASE /\ m # <<>> /\ m[1].kind = "summary"
           /\ m[1].n \in 1 .. k - 1
           /\ Len(m) = 1 + k - m[1].n
           /\ \A i \in 2..Len(m) : m[i] = h[m[1].n + i - 1]
  <2>1. PICK n \in 1 .. k - 1 : n = m[1].n /\ Len(m) = 1 + k - n
    BY <1>4
  <2>2. 1 \in 1..Len(m) /\ Len(m) >= 2
    BY <1>1, <2>1
  <2>3. /\ sent[1] = m[1]
        /\ Len(sent) = 1 + Len(h) - n /\ Len(sent) \in Nat
        /\ n \in 1 .. Len(h) - 1
    <3>1. sent[1] = m[1] /\ Len(sent) = Len(m) + Len(h) - k
      BY <1>2, <2>2
    <3>2. k <= Len(h)
      OBVIOUS
    <3>3. Len(m) = 1 + k - n
      BY <2>1
    <3>4. Len(sent) = 1 + Len(h) - n
      BY <1>1, <3>1, <3>3
    <3>5. n <= Len(h) - 1 /\ n >= 1
      BY <1>1, <3>2
    <3>6. n \in 1 .. Len(h) - 1 /\ Len(sent) \in Nat
      BY <1>1, <3>4, <3>5
    <3>7. QED
      BY <3>1, <3>4, <3>6
  <2>4. ASSUME NEW i \in 2..Len(sent) PROVE sent[i] = h[n + i - 1]
    <3>1. CASE i <= Len(m)
      <4>1. i \in 1..Len(m) /\ i \in 2..Len(m)
        BY <1>1, <3>1
      <4>2. m[i] = h[n + i - 1]
        BY <1>4, <2>1, <4>1
      <4>3. QED
        BY <1>2, <4>1, <4>2
    <3>2. CASE i > Len(m)
      <4> DEFINE l == Len(m)
      <4>0. /\ l \in Nat /\ l = 1 + k - n /\ Len(sent) = 1 + Len(h) - n
            /\ Len(sent) \in Nat /\ i > l
        BY <1>1, <2>1, <2>3, <3>2
      <4> HIDE DEF l
      <4>a. i \in Nat /\ i <= 1 + Len(h) - n
        BY <4>0
      <4>1. i - l \in 1 .. Len(h) - k /\ l + (i - l) = i
        BY <1>1, <4>0, <4>a
      <4>2. k + (i - l) = n + i - 1
        BY <1>1, <4>0, <4>a
      <4>3. QED
        BY <1>2, <4>1, <4>2 DEF l
    <3>3. QED
      BY <1>1, <3>1, <3>2
  <2>5. sent # <<>>
    <3>1. Len(sent) # 0
      BY <1>1, <2>3
    <3>2. QED
      BY <3>1, EmptySeq
  <2>6. sent[1].n = n /\ sent[1].kind = "summary"
    BY <1>4, <2>1, <2>3
  <2>7. Covers(sent, h, Len(h))
    BY <2>3, <2>4, <2>5, <2>6 DEF Covers
  <2>8. QED
    BY <2>7 DEF sent
<1>5. QED
  BY <1>3, <1>4 DEF Covers

LEMMA BoundaryFacts ==
    ASSUME NEW m \in Seq(Sent)
    PROVE  /\ Boundary(m) \in Nat
           /\ Boundary(m) # 0 => Boundary(m) < Len(m)
<1>1. Len(m) \in Nat /\ Recent \in Nat \ {0}
  BY LenProperties, SizesAssumption
<1> DEFINE older == IF Len(m) > Recent THEN Len(m) - Recent ELSE 0
<1>2. older \in Nat /\ (older # 0 => older < Len(m))
  BY <1>1
<1>3. Boundary(m) = IF older > 0 /\ m[older + 1].kind = "results" THEN older - 1 ELSE older
  BY DEF Boundary
<1> HIDE DEF older
<1>4. QED
  BY <1>1, <1>2, <1>3

LEMMA CompactedFacts ==
    ASSUME NEW m \in Seq(Sent), NEW b \in Nat, b = Boundary(m), b # 0
    PROVE  LET stands == IF m[1].kind = "summary" THEN m[1].n + b - 1 ELSE b
               sent   == Compacted(m)
           IN  /\ stands \in Nat
               /\ sent \in Seq(Sent) /\ Len(sent) = 1 + Len(m) - b
               /\ sent[1].kind = "summary" /\ sent[1].n = stands
               /\ \A i \in 2..Len(sent) : sent[i] = m[b + i - 1]
<1> DEFINE stands == IF m[1].kind = "summary" THEN m[1].n + b - 1 ELSE b
           head == Message("summary", stands, <<>>)
           rest == SubSeq(m, b + 1, Len(m))
           sent == Compacted(m)
<1>1. Len(m) \in Nat /\ b < Len(m)
  BY LenProperties, BoundaryFacts
<1>2. \A i \in 1..Len(m) : m[i] \in Sent
  BY ElementOfSeq
<1>3. stands \in Nat
  <2>1. m[1].n \in Nat
    BY <1>1, <1>2 DEF Sent
  <2>2. QED
    BY <2>1
<1>4. sent = <<head>> \o rest
  BY DEF Compacted
<1>5. head \in Sent /\ head.kind = "summary" /\ head.n = stands
  <2>1. <<>> \in Calls
    BY EmptySeq DEF Calls
  <2> HIDE DEF stands
  <2>2. QED
    BY <1>3, <2>1 DEF Sent, Message
<1>6. Len(rest) = Len(m) - b /\ rest \in Seq(Sent) /\ \A i \in 1 .. Len(m) - b : rest[i] = m[b + i]
  <2>1. b + 1 \in Int /\ Len(m) \in Int /\ \A i \in b + 1 .. Len(m) : m[i] \in Sent
    BY <1>1, <1>2
  <2>2. /\ rest \in Seq(Sent)
        /\ Len(rest) = IF b + 1 <= Len(m) THEN Len(m) - (b + 1) + 1 ELSE 0
        /\ \A i \in 1 .. Len(m) - (b + 1) + 1 : rest[i] = m[b + 1 + i - 1]
    BY <2>1, SubSeqProperties
  <2> HIDE DEF rest
  <2>3. QED
    BY <1>1, <2>2
<1> HIDE DEF stands, head, rest
<1>7. <<head>> \in Seq(Sent) /\ Len(<<head>>) = 1 /\ <<head>>[1] = head
  BY <1>5
<1>8. /\ sent \in Seq(Sent) /\ Len(sent) = 1 + Len(rest)
      /\ \A i \in 1 .. 1 + Len(rest) : sent[i] = IF i <= 1 THEN <<head>>[i] ELSE rest[i - 1]
  BY <1>4, <1>6, <1>7, ConcatProperties
<1> HIDE DEF sent
<1>9. sent[1] = head
  BY <1>1, <1>6, <1>7, <1>8
<1>10. ASSUME NEW i \in 2..Len(sent) PROVE sent[i] = m[b + i - 1]
  <2>1. i - 1 \in 1 .. Len(m) - b /\ b + (i - 1) = b + i - 1 /\ ~(i <= 1)
    BY <1>1, <1>6, <1>8
  <2>2. QED
    BY <1>6, <1>8, <2>1
<1>11. sent \in Seq(Sent) /\ Len(sent) = 1 + Len(m) - b
  BY <1>1, <1>6, <1>8
<1>12. QED
  BY <1>3, <1>5, <1>9, <1>10, <1>11 DEF stands, sent


LEMMA CompactedTyped == \A m \in Seq(Sent) : Compacted(m) \in Seq(Sent)
<1> SUFFICES ASSUME NEW m \in Seq(Sent) PROVE Compacted(m) \in Seq(Sent)
  OBVIOUS
<1>1. CASE Boundary(m) = 0
  BY <1>1 DEF Compacted
<1>2. CASE Boundary(m) # 0
  BY <1>2, BoundaryFacts, CompactedFacts
<1>3. QED
  BY <1>1, <1>2

\* A summary of a summary stands for the messages of both.
LEMMA CoversCompacted ==
    ASSUME NEW h \in Seq(Kept), NEW m \in Seq(Sent), Covers(m, h, Len(h))
    PROVE  Covers(Compacted(m), h, Len(h))
<1>1. Len(h) \in Nat /\ Len(m) \in Nat
  BY LenProperties
<1>2. CASE Boundary(m) = 0
  BY <1>2 DEF Compacted
<1>3. CASE Boundary(m) # 0
  <2>1. PICK b \in Nat : b = Boundary(m) /\ b # 0 /\ b < Len(m)
    BY <1>3, BoundaryFacts
  <2> DEFINE stands == IF m[1].kind = "summary" THEN m[1].n + b - 1 ELSE b
             sent == Compacted(m)
  <2>2. /\ sent \in Seq(Sent) /\ Len(sent) = 1 + Len(m) - b
        /\ sent[1].kind = "summary" /\ sent[1].n = stands
        /\ \A i \in 2..Len(sent) : sent[i] = m[b + i - 1]
    BY <2>1, CompactedFacts
  <2>3. sent # <<>>
    <3>1. Len(sent) # 0
      BY <1>1, <2>1, <2>2
    <3>2. QED
      BY <3>1, EmptySeq
  <2> HIDE DEF sent
  <2>4. CASE Len(m) = Len(h) /\ \A i \in 1..Len(h) : m[i] = h[i]
    <3>1. stands = b
      <4>1. 1 \in 1..Len(h) /\ m[1] = h[1]
        BY <1>1, <2>1, <2>4
      <4>2. h[1].kind # "summary"
        BY <4>1, KeptIsSent
      <4>3. QED
        BY <4>1, <4>2
    <3> HIDE DEF stands
    <3>2. b \in 1 .. Len(h) - 1 /\ Len(sent) = 1 + Len(h) - b /\ Len(sent) \in Nat
      BY <1>1, <2>1, <2>2, <2>4
    <3>3. ASSUME NEW i \in 2..Len(sent) PROVE sent[i] = h[b + i - 1]
      <4>1. b + i - 1 \in 1..Len(h)
        BY <1>1, <3>2
      <4>2. QED
        BY <2>2, <2>4, <4>1
    <3>4. QED
      BY <2>2, <2>3, <3>1, <3>2, <3>3 DEF Covers, sent
  <2>5. CASE /\ m # <<>> /\ m[1].kind = "summary"
             /\ m[1].n \in 1 .. Len(h) - 1
             /\ Len(m) = 1 + Len(h) - m[1].n
             /\ \A i \in 2..Len(m) : m[i] = h[m[1].n + i - 1]
    <3>1. PICK n \in 1 .. Len(h) - 1 : n = m[1].n /\ Len(m) = 1 + Len(h) - n
      BY <2>5
    <3>2. PICK s \in Int : s = n + b - 1
      BY <1>1, <2>1
    <3>3. stands = s
      BY <2>5, <3>1, <3>2
    <3> HIDE DEF stands
    <3> DEFINE l == Len(m)
    <3>4. l \in Nat /\ l = 1 + Len(h) - n /\ b < l /\ Len(sent) = 1 + l - b
      BY <1>1, <2>1, <2>2, <3>1
    <3> HIDE DEF l
    <3>5. s \in 1 .. Len(h) - 1 /\ Len(sent) = 1 + Len(h) - s /\ Len(sent) \in Nat
      <4> DEFINE k == Len(h)
                 c == Len(sent)
      <4>1. /\ k \in Nat /\ n \in Nat /\ b \in Nat /\ l \in Nat /\ s \in Int
            /\ n >= 1 /\ b >= 1 /\ b < l /\ l = 1 + k - n
            /\ s = n + b - 1 /\ c = 1 + l - b
        BY <1>1, <2>1, <3>2, <3>4
      <4> HIDE DEF k, c
      <4>2. s >= 1 /\ s <= k - 1
        BY <4>1
      <4>3. c = 1 + k - s
        BY <4>1
      <4>4. s \in 1 .. k - 1 /\ c \in Nat
        BY <4>1, <4>2, <4>3
      <4>5. QED
        BY <4>3, <4>4 DEF k, c
    <3>6. ASSUME NEW i \in 2..Len(sent) PROVE sent[i] = h[s + i - 1]
      <4>0. i \in Nat /\ i >= 2 /\ i <= 1 + l - b /\ b >= 1
        BY <2>1, <3>4, <3>5
      <4>1. b + i - 1 \in 2..l /\ n + (b + i - 1) - 1 = s + i - 1
        BY <3>2, <3>4, <4>0
      <4>2. m[b + i - 1] = h[n + (b + i - 1) - 1]
        BY <2>5, <3>1, <4>1 DEF l
      <4>3. QED
        BY <2>2, <4>1, <4>2
    <3>7. QED
      BY <2>2, <2>3, <3>3, <3>5, <3>6 DEF Covers, sent
  <2>6. QED
    BY <2>4, <2>5 DEF Covers
<1>4. QED
  BY <1>2, <1>3

\* Cut before a reply, the copy of a conversation is a conversation.
LEMMA CoversValid ==
    ASSUME NEW h \in Seq(Kept), NEW m \in Seq(Sent), Covers(m, h, Len(h)),
           CutBeforeReply(m), ValidUpTo(h, Len(h))
    PROVE  ValidUpTo(m, Len(m))
<1>1. Len(h) \in Nat /\ Len(m) \in Nat
  BY LenProperties
<1>2. CASE Len(m) = Len(h) /\ \A i \in 1..Len(h) : m[i] = h[i]
  BY <1>1, <1>2, SameValid
<1>3. CASE /\ m # <<>> /\ m[1].kind = "summary"
           /\ m[1].n \in 1 .. Len(h) - 1
           /\ Len(m) = 1 + Len(h) - m[1].n
           /\ \A i \in 2..Len(m) : m[i] = h[m[1].n + i - 1]
  <2>1. PICK n \in 1 .. Len(h) - 1 : n = m[1].n /\ Len(m) = 1 + Len(h) - n
    BY <1>3
  <2> DEFINE l == Len(m)
  <2>2. l \in Nat /\ l = 1 + Len(h) - n
    BY <1>1, <2>1
  <2>3. \A i \in 2..l : m[i] = h[n + i - 1]
    BY <1>3, <2>1
  <2>4. m[1].kind = "summary" /\ l >= 2 /\ m[2].kind # "results"
    BY <1>3 DEF CutBeforeReply
  <2> HIDE DEF l
  <2>5. SUFFICES ASSUME NEW i \in 1..l
                 PROVE  /\ m[i].kind = "reply" /\ m[i].calls # <<>> =>
                              i < l /\ Answers(m[i], m[i + 1])
                        /\ m[i].kind = "results" =>
                              i > 1 /\ m[i - 1].kind = "reply" /\ Answers(m[i - 1], m[i])
    BY DEF ValidUpTo, l
  <2>6. CASE i = 1
    BY <2>4, <2>6
  <2>7. CASE i # 1
    <3>1. i \in 2..l
      BY <2>2, <2>7
    <3>2. PICK j \in 1..Len(h) : j = n + i - 1
      BY <1>1, <2>2, <3>1
    <3>3. m[i] = h[j]
      BY <2>3, <3>1, <3>2
    <3>4. /\ h[j].kind = "reply" /\ h[j].calls # <<>> => j < Len(h) /\ Answers(h[j], h[j + 1])
          /\ h[j].kind = "results" => j > 1 /\ h[j - 1].kind = "reply" /\ Answers(h[j - 1], h[j])
      BY DEF ValidUpTo
    <3>5. j < Len(h) => i < l /\ m[i + 1] = h[j + 1]
      <4>1. SUFFICES ASSUME j < Len(h) PROVE i < l /\ m[i + 1] = h[j + 1]
        OBVIOUS
      <4>2. i + 1 \in 2..l /\ n + (i + 1) - 1 = j + 1 /\ i < l
        BY <1>1, <2>2, <3>1, <3>2, <4>1
      <4>3. m[i + 1] = h[n + (i + 1) - 1]
        BY <2>3, <4>2
      <4>4. QED
        BY <4>2, <4>3
    <3>6. m[i].kind = "results" => m[i - 1] = h[j - 1]
      <4>1. SUFFICES ASSUME m[i].kind = "results" PROVE m[i - 1] = h[j - 1]
        OBVIOUS
      <4>2. i # 2
        BY <2>4, <4>1
      <4>3. i - 1 \in 2..l /\ n + (i - 1) - 1 = j - 1
        BY <1>1, <2>2, <3>1, <3>2, <4>2
      <4>4. m[i - 1] = h[n + (i - 1) - 1]
        BY <2>3, <4>3
      <4>5. QED
        BY <4>3, <4>4
    <3>7. i > 1
      BY <2>2, <3>1
    <3>8. QED
      BY <3>3, <3>4, <3>5, <3>6, <3>7
  <2>8. QED
    BY <2>6, <2>7
<1>4. QED
  BY <1>2, <1>3 DEF Covers

LEMMA CutExtended ==
    ASSUME NEW h \in Seq(Kept), NEW m \in Seq(Sent), NEW k \in 0..Len(h), CutBeforeReply(m)
    PROVE  CutBeforeReply(m \o SubSeq(h, k + 1, Len(h)))
<1> DEFINE sent == m \o SubSeq(h, k + 1, Len(h))
<1>1. Len(h) \in Nat /\ Len(m) \in Nat /\ k \in Nat
  BY LenProperties
<1>2. /\ sent \in Seq(Sent) /\ Len(sent) = Len(m) + Len(h) - k
      /\ \A i \in 1..Len(m) : sent[i] = m[i]
      /\ \A i \in 1 .. Len(h) - k : sent[Len(m) + i] = h[k + i]
  BY ExtendedFacts
<1> HIDE DEF sent
<1>3. SUFFICES ASSUME sent # <<>>, sent[1].kind = "summary"
               PROVE  Len(sent) >= 2 /\ sent[2].kind # "results"
  BY DEF CutBeforeReply, sent
<1>4. Len(sent) # 0 /\ Len(sent) \in Nat
  BY <1>2, <1>3, EmptySeq, LenProperties
<1>5. CASE Len(m) = 0
  <2>1. 1 \in 1 .. Len(h) - k /\ k + 1 \in 1..Len(h) /\ Len(m) + 1 = 1
    BY <1>1, <1>2, <1>4, <1>5
  <2>2. sent[1] = h[k + 1]
    BY <1>2, <2>1
  <2>3. QED
    BY <1>3, <2>1, <2>2, KeptIsSent
<1>6. CASE Len(m) # 0
  <2>1. 1 \in 1..Len(m) /\ m # <<>>
    BY <1>1, <1>6, EmptySeq
  <2>2. m[1].kind = "summary"
    BY <1>2, <1>3, <2>1
  <2>3. Len(m) >= 2 /\ m[2].kind # "results"
    BY <2>1, <2>2 DEF CutBeforeReply
  <2>4. 2 \in 1..Len(m)
    BY <1>1, <2>3
  <2>5. sent[2] = m[2]
    BY <1>2, <2>4
  <2>6. k <= Len(h)
    BY <1>1
  <2>7. Len(sent) >= 2
    BY <1>1, <1>2, <2>3, <2>6
  <2>8. QED
    BY <2>3, <2>5, <2>7
<1>7. QED
  BY <1>5, <1>6

\* The boundary of a compaction is not between a reply and its results.
LEMMA CutCompacted ==
    ASSUME NEW m \in Seq(Sent), CutBeforeReply(m), ValidUpTo(m, Len(m))
    PROVE  CutBeforeReply(Compacted(m))
<1>1. Len(m) \in Nat /\ Recent \in Nat \ {0}
  BY LenProperties, SizesAssumption
<1>2. CASE Boundary(m) = 0
  BY <1>2 DEF Compacted
<1>3. CASE Boundary(m) # 0
  <2>1. PICK b \in Nat : b = Boundary(m) /\ b # 0 /\ b < Len(m)
    BY <1>3, BoundaryFacts
  <2> DEFINE sent == Compacted(m)
  <2>2. /\ Len(sent) = 1 + Len(m) - b
        /\ \A i \in 2..Len(sent) : sent[i] = m[b + i - 1]
    BY <2>1, CompactedFacts
  <2> HIDE DEF sent
  <2>3. Len(sent) >= 2 /\ 2 \in 2..Len(sent) /\ b + 2 - 1 = b + 1
    BY <1>1, <2>1, <2>2
  <2>4. sent[2] = m[b + 1]
    BY <2>2, <2>3
  <2>5. m[b + 1].kind # "results"
    <3> DEFINE older == IF Len(m) > Recent THEN Len(m) - Recent ELSE 0
    <3>1. b = IF older > 0 /\ m[older + 1].kind = "results" THEN older - 1 ELSE older
      BY <2>1 DEF Boundary
    <3>2. older \in Nat /\ older < Len(m)
      BY <1>1, <2>1
    <3> HIDE DEF older
    <3>3. CASE older > 0 /\ m[older + 1].kind = "results"
      <4>1. b = older - 1
        BY <3>1, <3>3
      <4>2. older + 1 \in 1..Len(m) /\ older + 1 - 1 = older /\ b + 1 = older
        BY <1>1, <3>2, <4>1
      <4>3. m[older + 1 - 1].kind = "reply"
        BY <3>3, <4>2 DEF ValidUpTo
      <4>4. QED
        BY <4>2, <4>3
    <3>4. CASE ~(older > 0 /\ m[older + 1].kind = "results")
      BY <2>1, <3>1, <3>2, <3>4
    <3>5. QED
      BY <3>3, <3>4
  <2>6. QED
    BY <2>3, <2>4, <2>5 DEF CutBeforeReply, sent
<1>4. QED
  BY <1>2, <1>3


-----------------------------------------------------------------------------
(* The steps that open, write and end a session *)

LEMMA ReadableFacts ==
    /\ \A h \in Seq(Kept) : h \notin {Absent, Torn}
    /\ <<>> \in Seq(Kept) /\ <<>> \in Seq(Sent) /\ <<>> \in Seq(Nat) /\ <<>> \in Calls
<1>1. ASSUME NEW h \in Seq(Kept) PROVE h \notin {Absent, Torn}
  <2>1. h = Absent \/ h = Torn => 1 \in 1..Len(h) /\ h[1].kind \in {"absent", "torn"}
    BY DEF Absent, Torn, Message
  <2>2. \A i \in 1..Len(h) : h[i] \in Kept
    BY ElementOfSeq
  <2>3. \A m \in Kept : m.kind \notin {"absent", "torn"}
    BY DEF Kept
  <2>4. QED
    BY <2>1, <2>2, <2>3
<1>2. QED
  BY <1>1, EmptySeq DEF Calls

LEMMA SpendTyped ==
    ASSUME Types, NEW what \in {"starts", "switches", "queries", "replies", "aborts"}, Spend(what)
    PROVE  /\ left' \in [{"starts", "switches", "queries", "replies", "aborts"} -> Nat]
           /\ left'.queries <= Budget.queries /\ left'.replies <= Budget.replies
<1>1. /\ \A x \in {"starts", "switches", "queries", "replies", "aborts"} :
            left'[x] \in Nat /\ left'[x] <= left[x]
      /\ left' \in [{"starts", "switches", "queries", "replies", "aborts"} -> Nat]
  BY DEF Types, Spend
<1>2. {left.queries, left.replies, Budget.queries, Budget.replies} \subseteq Nat
  BY SizesAssumption DEF Types
<1>3. left'.queries \in Nat /\ left'.queries <= left.queries
  BY <1>1
<1>4. left'.replies \in Nat /\ left'.replies <= left.replies
  BY <1>1
<1>5. left'.queries <= Budget.queries
  BY <1>2, <1>3 DEF Types
<1>6. left'.replies <= Budget.replies
  BY <1>2, <1>4 DEF Types
<1>7. QED
  BY <1>1, <1>5, <1>6

LEMMA FreshTyped == Types => Fresh \in Nat
<1> SUFFICES ASSUME Types PROVE Fresh \in Nat
  OBVIOUS
<1>1. /\ left.queries \in Nat /\ left.replies \in Nat
      /\ left.queries <= Budget.queries /\ left.replies <= Budget.replies
  BY DEF Types
<1>2. Budget.queries \in Nat /\ Budget.replies \in Nat
  BY SizesAssumption
<1>3. Budget.replies + Budget.queries - left.replies - left.queries + 1 \in Nat
  BY <1>1, <1>2
<1>4. QED
  BY <1>3 DEF Fresh

LEMMA NoWorkFacts ==
    /\ NoWork = [ran |-> NoWork.ran, approved |-> NoWork.approved, finished |-> NoWork.finished]
    /\ NoWork.ran = {} /\ NoWork.finished = {}
BY DEF NoWork

\* A session is opened as it is on disk, or is new.
LEMMA OpenFacts ==
    ASSUME SessionInv, StartChat \/ SwitchSession
    PROVE  /\ work' = NoWork /\ UNCHANGED <<context, files, active>>
           /\ \E s \in Sessions, t \in Seq(Kept), p \in {"save", "activate", "input"} :
                 /\ chat' = Opened(s, t, p)
                 /\ p = "save" => files[s] = Absent /\ t = <<>>
                 /\ p # "save" => Readable(s) /\ files[s] = t
<1>1. Types /\ Places
  BY DEF SessionInv
<1>2. work' = NoWork /\ UNCHANGED <<context, files, active>>
  BY <1>1 DEF StartChat, SwitchSession, Places
<1>3. ASSUME CreateSession
      PROVE  \E s \in Sessions : files[s] = Absent /\ chat' = Opened(s, <<>>, "save")
  BY <1>3 DEF CreateSession
<1>4. \A s : Readable(s) => s \in Sessions /\ files[s] \in Seq(Kept)
  BY <1>1 DEF Readable, Types
<1>5. \/ CreateSession
      \/ \E s : Readable(s) /\ chat' = Opened(s, files[s], "input")
      \/ \E s : Readable(s) /\ chat' = Opened(s, files[s], "activate")
  BY DEF StartChat, SwitchSession, Activate
<1>6. QED
  BY <1>2, <1>3, <1>4, <1>5, ReadableFacts

\* Whatever session is opened, the copy is one of an older list.
LEMMA OpenKept ==
    ASSUME SessionInv, StartChat \/ SwitchSession
    PROVE  SessionInv'
<1>1. Types /\ Places /\ CopyCovers
  BY DEF SessionInv
<1>2. work' = NoWork /\ UNCHANGED <<context, files, active>>
  BY OpenFacts
<1>3. PICK s \in Sessions, t \in Seq(Kept), p \in {"save", "activate", "input"} :
          /\ chat' = Opened(s, t, p)
          /\ p = "save" => files[s] = Absent
          /\ p # "save" => files[s] = t
  BY OpenFacts
<1>4. /\ chat'.pc = p /\ chat'.next = "input" /\ chat'.session = s /\ chat'.history = t
      /\ chat'.object = chat.object + 1 /\ chat.object \in Nat
      /\ chat' \in Chat
  <2>1. chat.object \in Nat
    BY <1>1 DEF Types, Chat
  <2>2. PICK n \in Nat : n = chat.object + 1
    BY <2>1
  <2>3. chat' = [chat EXCEPT !.pc = p, !.next = "input", !.session = s, !.history = t, !.object = n]
    BY <1>3, <2>2 DEF Opened
  <2>4. p \in Pc
    BY DEF Pc
  <2>5. /\ chat'.pc = p /\ chat'.next = "input" /\ chat'.session = s /\ chat'.history = t
        /\ chat'.object = n
    BY <1>1, <2>3 DEF Types, Chat
  <2>7. chat' \in Chat
    BY <1>1, <2>3, <2>4 DEF Types, Chat
  <2>6. QED
    BY <2>1, <2>2, <2>5, <2>7
<1>4a. chat'.object # NoObject
  BY <1>4 DEF NoObject
<1>5. /\ left' \in [{"starts", "switches", "queries", "replies", "aborts"} -> Nat]
      /\ left'.queries <= Budget.queries /\ left'.replies <= Budget.replies
  BY <1>1, SpendTyped DEF StartChat, SwitchSession
<1>6. Types'
  BY <1>1, <1>2, <1>4, <1>5, NoWorkFacts DEF Types
<1>7. Places'
  BY <1>4, <1>4a DEF Places
<1>8. Saved'
  BY <1>2, <1>3, <1>4 DEF Saved
<1>9. CopyCovers'
  <2>1. context.source \in Nat /\ context.source <= chat.object
    BY <1>1 DEF Types, Context, CopyCovers
  <2>2. context'.source = context.source
    BY <1>2
  <2>3. QED
    BY <1>4, <2>1, <2>2 DEF CopyCovers
<1>10. RequestCovers' /\ FinishedKept' /\ ApprovalsHonoured'
  BY <1>2, <1>4, NoWorkFacts DEF RequestCovers, FinishedKept, ApprovalsHonoured
<1>11. QED
  BY <1>6, <1>7, <1>8, <1>9, <1>10 DEF SessionInv

LEMMA BeginsWhole == \A h \in Seq(Kept) : Begins(h, h)
BY LenProperties DEF Begins

LEMMA WriteKept ==
    ASSUME SessionInv, WriteSession \/ WriteActive
    PROVE  SessionInv'
<1>1. Types /\ Places /\ Saved /\ CopyCovers /\ FinishedKept /\ ApprovalsHonoured
  BY DEF SessionInv
<1>2. /\ chat.pc \in {"save", "activate"}
      /\ UNCHANGED <<context, work, left>>
  BY DEF WriteSession, WriteActive
<1>3. chat.session \in Sessions /\ chat.next \in {"input", "build"} /\ chat.object # NoObject
  BY <1>1, <1>2 DEF Places
<1>4. /\ chat' \in Chat
      /\ chat'.pc \in {"activate", "input", "build"}
      /\ chat'.session = chat.session /\ chat'.history = chat.history
      /\ chat'.object = chat.object /\ chat'.next = chat.next /\ chat'.safe = chat.safe
      /\ chat'.pc = "build" => chat.next = "build"
  BY <1>1, <1>2, <1>3 DEF WriteSession, WriteActive, Types, Chat, Pc
<1>5. chat.history \in Seq(Kept) /\ Len(chat.history) \in Nat
  BY <1>1, LenProperties DEF Types, Chat
<1>6. /\ files' \in [Sessions -> Seq(Kept) \cup {Absent, Torn}]
      /\ files'[chat.session] = chat.history
      /\ active' \in Sessions \cup {NoSession}
  <2>1. CASE WriteSession
    BY <1>1, <1>3, <1>5, <2>1 DEF WriteSession, Types
  <2>2. CASE WriteActive
    BY <1>1, <1>3, <2>2 DEF WriteActive, Types, Saved
  <2>3. QED
    BY <2>1, <2>2
<1>7. Types'
  BY <1>1, <1>2, <1>4, <1>6 DEF Types
<1>8. Places'
  BY <1>1, <1>2, <1>3, <1>4 DEF Places
<1>9. Saved'
  <2>1. CASE chat'.pc # "build"
    BY <1>4, <1>6, <2>1 DEF Saved
  <2>2. CASE chat'.pc = "build"
    <3>1. chat.safe = Len(chat.history)
      BY <1>1, <1>2, <1>4, <2>2 DEF Places
    <3>2. Readable(chat.session)' /\ Begins(chat.history, chat.history)
      BY <1>3, <1>4, <1>5, <1>6, ReadableFacts, BeginsWhole DEF Readable
    <3>3. chat.safe \in Nat /\ Len(chat.history) <= chat.safe
      BY <1>5, <3>1
    <3>4. QED
      BY <1>4, <1>6, <2>2, <3>2, <3>3 DEF Saved
  <2>3. QED
    BY <2>1, <2>2
<1>10. Settled' = Settled
  BY <1>2, <1>4 DEF Settled
<1>11. CopyCovers'
  BY <1>1, <1>2, <1>4, <1>10 DEF CopyCovers
<1>12. RequestCovers' /\ FinishedKept' /\ ApprovalsHonoured'
  BY <1>1, <1>2, <1>4, <1>10 DEF RequestCovers, FinishedKept, ApprovalsHonoured
<1>13. QED
  BY <1>7, <1>8, <1>9, <1>11, <1>12 DEF SessionInv

LEMMA OffFacts ==
    /\ Off \in Chat /\ NewContext \in Context
    /\ Off.pc = "off" /\ Off.object = NoObject
    /\ NewContext.source = NoObject /\ NoObject = 0
<1>1. Off \in Chat /\ Off.pc = "off" /\ Off.object = NoObject
  BY ReadableFacts DEF Off, Chat, Pc, NoObject
<1>2. NewContext \in Context /\ NewContext.source = NoObject
  BY ReadableFacts DEF NewContext, Context, NoObject
<1>3. QED
  BY <1>1, <1>2 DEF NoObject

LEMMA OffKept ==
    ASSUME chat' = Off, context' = NewContext, work' = NoWork,
           files' \in [Sessions -> Seq(Kept) \cup {Absent, Torn}],
           active' \in Sessions \cup {NoSession},
           left' \in [{"starts", "switches", "queries", "replies", "aborts"} -> Nat],
           left'.queries <= Budget.queries, left'.replies <= Budget.replies
    PROVE  SessionInv'
<1>1. chat'.pc = "off" /\ chat'.object = 0 /\ context'.source = 0
  BY OffFacts
<1>2. Types'
  BY OffFacts, NoWorkFacts DEF Types
<1>3. Places' /\ Saved' /\ RequestCovers'
  BY <1>1 DEF Places, Saved, RequestCovers
<1>4. CopyCovers' /\ FinishedKept' /\ ApprovalsHonoured'
  BY <1>1, NoWorkFacts DEF CopyCovers, FinishedKept, ApprovalsHonoured, NoObject
<1>5. QED
  BY <1>2, <1>3, <1>4 DEF SessionInv

LEMMA DieKept ==
    ASSUME SessionInv, Die
    PROVE  SessionInv'
<1>1. Types
  BY DEF SessionInv
<1>2. /\ files' \in [Sessions -> Seq(Kept) \cup {Absent, Torn}]
      /\ active' \in Sessions \cup {NoSession}
  BY <1>1 DEF Die, Types
<1>3. QED
  BY <1>1, <1>2, OffKept DEF Die, Types


-----------------------------------------------------------------------------
(* The steps that lengthen or shorten the history *)

\* A history that keeps its first k messages keeps what is said of them.
LEMMA HistoryKept ==
    ASSUME NEW g, NEW h, NEW k \in Nat, \A i \in 1..k : g[i] = h[i],
           NEW s \in Seq(Kept), Len(s) <= k, Begins(s, h), Len(g) \in Nat, k <= Len(g)
    PROVE  Begins(s, g)
<1>1. Len(s) \in Nat
  BY LenProperties
<1>2. \A i \in 1..Len(s) : i \in 1..k
  BY <1>1
<1>3. QED
  BY <1>1, <1>2 DEF Begins

\* For every step of one session.
LEMMA SameSession ==
    ASSUME SessionInv, chat' \in Chat, chat'.object = chat.object,
           context'.source = context.source, context'.copy = context.copy,
           context'.count = context.count,
           Settled <= Settled',
           \A i \in 1..Settled : chat'.history[i] = chat.history[i],
           work'.finished = work.finished
    PROVE  CopyCovers' /\ FinishedKept'
<1>1. Types /\ CopyCovers /\ FinishedKept
  BY DEF SessionInv
<1>2. Settled \in Nat /\ Settled' \in Nat
  <2>1. /\ chat.safe \in Nat /\ Len(chat.history) \in Nat
        /\ chat'.safe \in Nat /\ Len(chat'.history) \in Nat
    BY <1>1, LenProperties DEF Types, Chat
  <2>2. QED
    BY <2>1 DEF Settled
<1>3. CopyCovers'
  <2>1. context.source <= chat'.object
    BY <1>1 DEF CopyCovers
  <2>2. ASSUME context.source = chat.object, context.source # NoObject
        PROVE  context.count <= Settled' /\ Covers(context.copy, chat'.history, context.count)
    <3>1. /\ context.count \in Nat /\ context.count <= Settled
          /\ Covers(context.copy, chat.history, context.count)
          /\ Len(context.copy) \in Nat
      BY <1>1, <2>2, LenProperties DEF CopyCovers, Types, Context
    <3>2. \A i \in 1..context.count : chat'.history[i] = chat.history[i]
      BY <1>2, <3>1
    <3>3. Covers(context.copy, chat'.history, context.count)
      BY <3>1, <3>2, SameCovers
    <3>4. context.count <= Settled'
      BY <1>2, <3>1
    <3>5. QED
      BY <3>3, <3>4
  <2>3. QED
    BY <2>1, <2>2 DEF CopyCovers
<1>4. FinishedKept'
  <2>1. ASSUME NEW reply \in work.finished
        PROVE  \E i \in 2..Settled' : chat'.history[i - 1] = reply /\ Answers(reply, chat'.history[i])
    <3>1. \E i \in 2..Settled : chat.history[i - 1] = reply /\ Answers(reply, chat.history[i])
      BY <1>1 DEF FinishedKept
    <3>2. QED
      BY <1>2, <3>1, SameFinished
  <2>2. QED
    BY <2>1 DEF FinishedKept
<1>5. QED
  BY <1>3, <1>4

LEMMA AskKept ==
    ASSUME SessionInv, AskQuery
    PROVE  SessionInv'
<1> DEFINE query == Message("query", Fresh, <<>>)
<1>1. Types /\ Places /\ Saved /\ ApprovalsHonoured
  BY DEF SessionInv
<1>2. chat.history \in Seq(Kept) /\ Len(chat.history) \in Nat
  BY <1>1, LenProperties DEF Types, Chat
<1>3. query \in Kept
  BY <1>1, FreshTyped, ReadableFacts DEF Kept, Message
<1>4. PICK h \in Seq(Kept) :
          /\ h = Append(chat.history, query)
          /\ Len(h) = Len(chat.history) + 1
          /\ \A i \in 1..Len(chat.history) : h[i] = chat.history[i]
  <2> HIDE DEF query
  <2>1. /\ Append(chat.history, query) \in Seq(Kept)
        /\ Len(Append(chat.history, query)) = Len(chat.history) + 1
        /\ \A i \in 1..Len(chat.history) : Append(chat.history, query)[i] = chat.history[i]
    BY <1>2, <1>3, AppendFacts
  <2>2. QED
    BY <2>1, Zenon
<1>5. PICK n \in Nat : n = Len(chat.history) + 1
  BY <1>2
<1>6. /\ chat' = [chat EXCEPT !.pc = "save", !.next = "build", !.recoveries = 0,
                              !.history = h, !.safe = n]
      /\ chat.pc = "input"
      /\ UNCHANGED <<context, files, active, work>>
  BY <1>4, <1>5 DEF AskQuery
<1>7. /\ chat' \in Chat /\ chat'.pc = "save" /\ chat'.next = "build" /\ chat'.history = h
      /\ chat'.safe = n /\ chat'.session = chat.session /\ chat'.object = chat.object
  BY <1>1, <1>6 DEF Types, Chat, Pc
<1>8. Types'
  <2>1. /\ left' \in [{"starts", "switches", "queries", "replies", "aborts"} -> Nat]
        /\ left'.queries <= Budget.queries /\ left'.replies <= Budget.replies
    BY <1>1, SpendTyped DEF AskQuery
  <2>2. QED
    BY <1>1, <1>6, <1>7, <2>1 DEF Types
<1>9. Places'
  BY <1>1, <1>4, <1>5, <1>6, <1>7 DEF Places
<1>10. Saved'
  <2>1. files[chat.session] = chat.history /\ chat.session \in Sessions
    BY <1>1, <1>6 DEF Saved, Places
  <2>2. Readable(chat.session)'
    BY <1>2, <1>6, <1>7, <2>1, ReadableFacts DEF Readable
  <2>3. Begins(chat.history, h)
    BY <1>2, <1>4 DEF Begins
  <2>4. QED
    BY <1>6, <1>7, <2>1, <2>2, <2>3 DEF Saved
<1>11. Settled = Len(chat.history) /\ Settled' = Len(chat.history) + 1
  BY <1>4, <1>6, <1>7 DEF Settled
<1>12. CopyCovers' /\ FinishedKept'
  BY <1>2, <1>4, <1>6, <1>7, <1>11, SameSession
<1>13. RequestCovers' /\ ApprovalsHonoured'
  BY <1>1, <1>6, <1>7 DEF RequestCovers, ApprovalsHonoured
<1>14. QED
  BY <1>8, <1>9, <1>10, <1>12, <1>13 DEF SessionInv

\* Where the loop is, the history is settled up to its last complete exchange.
LEMMA LoopFacts ==
    ASSUME SessionInv, chat.pc \in {"build", "request", "tools"}
    PROVE  /\ chat.history \in Seq(Kept) /\ Len(chat.history) \in Nat
           /\ chat.safe \in 0..Len(chat.history) /\ Settled = chat.safe
           /\ files[chat.session] \in Seq(Kept) /\ Len(files[chat.session]) \in Nat
           /\ Len(files[chat.session]) <= chat.safe
           /\ Readable(chat.session) /\ Begins(files[chat.session], chat.history)
           /\ chat.session \in Sessions
<1>1. Types /\ Places /\ Saved
  BY DEF SessionInv
<1>2. chat.history \in Seq(Kept) /\ Len(chat.history) \in Nat /\ chat.safe \in Nat
  BY <1>1, LenProperties DEF Types, Chat
<1>3. chat.safe \in 0..Len(chat.history) /\ Settled = chat.safe
  BY <1>1, <1>2 DEF Places, Settled
<1>4. /\ chat.session \in Sessions
      /\ Readable(chat.session) /\ Begins(files[chat.session], chat.history)
      /\ Len(files[chat.session]) <= chat.safe
  BY <1>1 DEF Places, Saved
<1>5. files[chat.session] \in Seq(Kept) /\ Len(files[chat.session]) \in Nat
  BY <1>1, <1>4, LenProperties DEF Readable, Types
<1>6. QED
  BY <1>2, <1>3, <1>4, <1>5

\* What is taken back is neither on disk nor in a copy, and no batch was finished in it.
LEMMA RaisedKept ==
    ASSUME SessionInv, Abort \/ RaiseInvalid
    PROVE  SessionInv'
<1>1. Types /\ Places /\ ApprovalsHonoured
  BY DEF SessionInv
<1>2. /\ chat.pc \in {"build", "request", "tools"} /\ chat' = Raised
      /\ UNCHANGED <<context, files, active>>
      /\ work' = work \/ work' = [NoWork EXCEPT !.finished = work.finished]
  BY DEF Abort, RaiseInvalid
<1>3. PICK h \in Seq(Kept) :
          /\ h = SubSeq(chat.history, 1, chat.safe) /\ Len(h) = chat.safe
          /\ \A i \in 1..chat.safe : h[i] = chat.history[i]
  <2>1. chat.history \in Seq(Kept) /\ chat.safe \in 0..Len(chat.history)
    BY <1>2, LoopFacts
  <2>2. /\ SubSeq(chat.history, 1, chat.safe) \in Seq(Kept)
        /\ Len(SubSeq(chat.history, 1, chat.safe)) = chat.safe
        /\ \A i \in 1..chat.safe : SubSeq(chat.history, 1, chat.safe)[i] = chat.history[i]
    BY <2>1, PrefixFacts
  <2>3. QED
    BY <2>2, Zenon
<1>4. chat' = [chat EXCEPT !.pc = "save", !.next = "input", !.history = h,
                           !.outbound = <<>>, !.answers = <<>>]
  BY <1>2, <1>3 DEF Raised, RolledBack
<1>5. /\ chat' \in Chat /\ chat'.pc = "save" /\ chat'.next = "input" /\ chat'.history = h
      /\ chat'.session = chat.session /\ chat'.object = chat.object
  BY <1>1, <1>4, ReadableFacts DEF Types, Chat, Pc
<1>6. /\ work' = [ran |-> work'.ran, approved |-> work'.approved, finished |-> work'.finished]
      /\ work'.finished = work.finished
      /\ work' = work \/ work'.ran = {}
  <2>1. CASE work' = work
    BY <1>1, <2>1 DEF Types
  <2>2. CASE work' = [NoWork EXCEPT !.finished = work.finished]
    BY <2>2 DEF NoWork
  <2>3. QED
    BY <1>2, <2>1, <2>2
<1>7. Types'
  <2>1. /\ left' \in [{"starts", "switches", "queries", "replies", "aborts"} -> Nat]
        /\ left'.queries <= Budget.queries /\ left'.replies <= Budget.replies
    <3>1. CASE Abort
      BY <1>1, <3>1, SpendTyped DEF Abort
    <3>2. CASE RaiseInvalid
      BY <1>1, <3>2 DEF RaiseInvalid, Types
    <3>3. QED
      BY <3>1, <3>2
  <2>2. QED
    BY <1>1, <1>2, <1>5, <1>6, <2>1 DEF Types
<1>8. Places'
  BY <1>1, <1>2, <1>5 DEF Places
<1>9. Saved'
  <2>1. Len(h) \in Nat /\ chat.safe \in Nat /\ chat.safe <= Len(h)
    BY <1>2, <1>3, LoopFacts
  <2>2. Begins(files[chat.session], h)
    BY <1>2, <1>3, <2>1, LoopFacts, HistoryKept
  <2>3. Readable(chat.session)'
    BY <1>2, <1>5, LoopFacts DEF Readable
  <2>4. QED
    BY <1>2, <1>5, <2>2, <2>3 DEF Saved
<1>10. Settled = chat.safe /\ Settled' = chat.safe /\ chat.safe \in Nat
  BY <1>2, <1>3, <1>5, LoopFacts DEF Settled
<1>11. CopyCovers' /\ FinishedKept'
  BY <1>2, <1>3, <1>5, <1>6, <1>10, SameSession
<1>12. RequestCovers' /\ ApprovalsHonoured'
  BY <1>1, <1>5, <1>6 DEF RequestCovers, ApprovalsHonoured
<1>13. QED
  BY <1>7, <1>8, <1>9, <1>11, <1>12 DEF SessionInv


-----------------------------------------------------------------------------
(* The steps of a request *)

LEMMA BuildKept ==
    ASSUME SessionInv, BuildContext
    PROVE  SessionInv'
<1> DEFINE copied == IF Reuses
                     THEN context.copy \o SubSeq(chat.history, context.count + 1, Len(chat.history))
                     ELSE chat.history
           sent   == IF TooLong(copied) THEN Compacted(copied) ELSE copied
<1>1. Types /\ Places /\ Saved /\ CopyCovers /\ FinishedKept /\ ApprovalsHonoured
  BY DEF SessionInv
<1>2. /\ chat.pc = "build" /\ chat' = [chat EXCEPT !.pc = "request", !.outbound = sent]
      /\ \/ context' = [context EXCEPT !.source = chat.object, !.copy = sent,
                                       !.count = Len(chat.history)]
         \/ context' = [NewContext EXCEPT !.calibration = context.calibration]
      /\ UNCHANGED <<files, active, work, left>>
  BY DEF BuildContext
<1>3. chat.history \in Seq(Kept) /\ chat.history \in Seq(Sent) /\ Len(chat.history) \in Nat
  BY <1>2, LoopFacts, KeptIsSent
<1>4. copied \in Seq(Sent) /\ Covers(copied, chat.history, Len(chat.history))
  <2>1. CASE Reuses
    <3>1. /\ context.copy \in Seq(Sent) /\ context.count \in 0..Len(chat.history)
          /\ Covers(context.copy, chat.history, context.count)
      BY <1>1, <1>3, <2>1 DEF Reuses, CopyCovers, Types, Context
    <3>2. /\ context.copy \o SubSeq(chat.history, context.count + 1, Len(chat.history)) \in Seq(Sent)
          /\ Covers(context.copy \o SubSeq(chat.history, context.count + 1, Len(chat.history)),
                    chat.history, Len(chat.history))
      BY <1>3, <3>1, ExtendedFacts, CoversExtended
    <3>3. QED
      BY <2>1, <3>2
  <2>2. CASE ~Reuses
    BY <1>3, <2>2, CoversWhole
  <2>3. QED
    BY <2>1, <2>2
<1> HIDE DEF copied
<1>5. sent \in Seq(Sent) /\ Covers(sent, chat.history, Len(chat.history))
  BY <1>3, <1>4, CompactedTyped, CoversCompacted
<1> HIDE DEF sent
<1>6. /\ chat' \in Chat /\ chat'.pc = "request" /\ chat'.outbound = sent
      /\ chat'.history = chat.history /\ chat'.session = chat.session
      /\ chat'.object = chat.object /\ chat'.safe = chat.safe /\ chat'.next = chat.next
  BY <1>1, <1>2, <1>5 DEF Types, Chat, Pc
<1>7. /\ context' \in Context
      /\ \/ /\ context'.source = chat.object /\ context'.copy = sent
            /\ context'.count = Len(chat.history)
         \/ context'.source = NoObject
  <2>1. chat.object \in Nat /\ context \in Context
    BY <1>1 DEF Types, Chat
  <2>2. CASE context' = [context EXCEPT !.source = chat.object, !.copy = sent,
                                        !.count = Len(chat.history)]
    BY <1>3, <1>5, <2>1, <2>2 DEF Context
  <2>3. CASE context' = [NewContext EXCEPT !.calibration = context.calibration]
    <3>1. context.calibration \in 1..6 /\ NewContext \in Context
      BY <2>1, OffFacts DEF Context
    <3>2. context' \in Context /\ context'.source = NewContext.source
      BY <2>3, <3>1 DEF Context
    <3>3. QED
      BY <3>2, OffFacts
  <2>4. QED
    BY <1>2, <2>2, <2>3
<1>8. Types'
  BY <1>1, <1>2, <1>6, <1>7 DEF Types
<1>9. Places'
  BY <1>1, <1>2, <1>6 DEF Places
<1>10. Saved'
  BY <1>1, <1>2, <1>6 DEF Saved, Readable
<1>11. Settled = Len(chat.history) /\ Settled' = Len(chat.history)
  BY <1>2, <1>6 DEF Settled
<1>12. CopyCovers'
  <2>1. context'.source <= chat.object
    BY <1>1, <1>7 DEF Types, Chat, NoObject
  <2>2. context'.source = chat.object /\ context'.source # NoObject =>
           context'.count <= Settled' /\ Covers(context'.copy, chat.history, context'.count)
    BY <1>3, <1>5, <1>7, <1>11
  <2>3. QED
    BY <1>6, <2>1, <2>2 DEF CopyCovers
<1>13. FinishedKept'
  BY <1>1, <1>2, <1>6, <1>11 DEF FinishedKept
<1>14. RequestCovers' /\ ApprovalsHonoured'
  BY <1>1, <1>2, <1>5, <1>6 DEF RequestCovers, ApprovalsHonoured
<1>15. QED
  BY <1>8, <1>9, <1>10, <1>12, <1>13, <1>14 DEF SessionInv

\* A reply ends the request or is followed by its calls.
LEMMA RespondFacts ==
    ASSUME SessionInv, Respond
    PROVE  \E calls \in Seq(Tools), kind \in {"reply", "cut"}, to \in {"save", "tools"} :
              /\ chat' = [chat EXCEPT !.pc = to, !.next = "input", !.outbound = <<>>,
                                      !.answers = <<>>,
                                      !.history = Append(@, Message(kind, Fresh, calls))]
              /\ to = "tools" => kind = "reply"
              /\ to = "save" => kind = "cut" \/ calls = <<>>
<1>1. PICK calls \in {<<>>} \cup UNION {[1..k -> Tools] : k \in 1..2},
           stop \in {"end", "tool_use"} :
           chat' = [chat EXCEPT !.pc = IF stop = "end" THEN "save" ELSE "tools",
                                !.next = "input", !.outbound = <<>>, !.answers = <<>>,
                                !.history = Append(@, Message(ReplyKind(stop, calls), Fresh, calls))]
  BY DEF Respond
<1>2. calls \in Seq(Tools)
  <2>1. CASE calls = <<>>
    BY <2>1, EmptySeq
  <2>2. CASE calls # <<>>
    <3>1. PICK k \in 1..2 : calls \in [1..k -> Tools]
      BY <2>2
    <3>2. k \in Nat
      OBVIOUS
    <3>3. calls \in UNION {[1..n -> Tools] : n \in Nat}
      BY <3>1, <3>2
    <3>4. QED
      BY <3>3, SeqDef
  <2>3. QED
    BY <2>1, <2>2
<1>3. /\ (IF stop = "end" THEN "save" ELSE "tools") \in {"save", "tools"}
      /\ ReplyKind(stop, calls) \in {"reply", "cut"}
      /\ (IF stop = "end" THEN "save" ELSE "tools") = "tools" => ReplyKind(stop, calls) = "reply"
      /\ (IF stop = "end" THEN "save" ELSE "tools") = "save" =>
            ReplyKind(stop, calls) = "cut" \/ calls = <<>>
  BY <1>1 DEF ReplyKind
<1>4. QED
  BY <1>1, <1>2, <1>3

\* A reply is not settled unless it ends the request.
LEMMA RespondKept ==
    ASSUME SessionInv, Respond
    PROVE  SessionInv'
<1>1. Types /\ Places /\ Saved /\ CopyCovers /\ ApprovalsHonoured
  BY DEF SessionInv
<1>2. PICK calls \in Seq(Tools), kind \in {"reply", "cut"}, to \in {"save", "tools"} :
          /\ chat' = [chat EXCEPT !.pc = to, !.next = "input", !.outbound = <<>>, !.answers = <<>>,
                                  !.history = Append(@, Message(kind, Fresh, calls))]
          /\ to = "tools" => kind = "reply"
  BY RespondFacts
<1>3. PICK reply \in Kept : reply = Message(kind, Fresh, calls) /\ reply.kind = kind
                             /\ reply.calls = calls
  <2>1. Message(kind, Fresh, calls) \in Kept
    BY <1>1, FreshTyped DEF Kept, Calls, Message
  <2>2. /\ Message(kind, Fresh, calls).kind = kind
        /\ Message(kind, Fresh, calls).calls = calls
    BY DEF Message
  <2>3. QED
    BY <2>1, <2>2, Zenon
<1>4. chat.history \in Seq(Kept) /\ Len(chat.history) \in Nat /\ chat.pc = "request"
  BY LoopFacts DEF Respond
<1>5. PICK h \in Seq(Kept) :
          /\ h = Append(chat.history, reply) /\ Len(h) = Len(chat.history) + 1
          /\ h[Len(chat.history) + 1] = reply
          /\ \A i \in 1..Len(chat.history) : h[i] = chat.history[i]
  <2>1. /\ Append(chat.history, reply) \in Seq(Kept)
        /\ Len(Append(chat.history, reply)) = Len(chat.history) + 1
        /\ Append(chat.history, reply)[Len(chat.history) + 1] = reply
        /\ \A i \in 1..Len(chat.history) : Append(chat.history, reply)[i] = chat.history[i]
    BY <1>4, AppendFacts
  <2>2. QED
    BY <2>1, Zenon
<1>6. chat' = [chat EXCEPT !.pc = to, !.next = "input", !.outbound = <<>>, !.answers = <<>>,
                           !.history = h]
  BY <1>2, <1>3, <1>5
<1>7. /\ chat' \in Chat /\ chat'.pc = to /\ chat'.next = "input" /\ chat'.history = h
      /\ chat'.answers = <<>>
      /\ chat'.session = chat.session /\ chat'.object = chat.object /\ chat'.safe = chat.safe
  BY <1>1, <1>6, ReadableFacts DEF Types, Chat, Pc
<1>8. PICK c \in 1..6 : context' = [context EXCEPT !.calibration = c]
  <2>1. PICK ratio \in Ratios : context' = [context EXCEPT !.calibration = Observed(ratio)]
    BY DEF Respond
  <2>2. ratio \in Nat
    BY <2>1, SizesAssumption
  <2>3. Observed(ratio) \in 1..6
    BY <2>2 DEF Observed
  <2>4. QED
    BY <2>1, <2>3
<1>9. /\ context' \in Context /\ context'.source = context.source
      /\ context'.copy = context.copy /\ context'.count = context.count
  BY <1>1, <1>8 DEF Types, Context
<1>10. UNCHANGED <<files, active, work>>
  BY DEF Respond
<1>11. Types'
  <2>1. /\ left' \in [{"starts", "switches", "queries", "replies", "aborts"} -> Nat]
        /\ left'.queries <= Budget.queries /\ left'.replies <= Budget.replies
    BY <1>1, SpendTyped DEF Respond
  <2>2. QED
    BY <1>1, <1>7, <1>9, <1>10, <2>1 DEF Types
<1>12. chat.safe = Len(chat.history)
  BY <1>1, <1>4 DEF Places
<1>13. Places'
  <2>1. /\ chat'.session \in Sessions /\ chat'.object # NoObject
    BY <1>1, <1>4, <1>7 DEF Places
  <2>2. Reply' = reply
    BY <1>4, <1>5, <1>7 DEF Last, Reply
  <2>3. Len(chat'.answers) = 0 /\ Len(reply.calls) \in Nat /\ reply.calls \in Seq(Tools)
    BY <1>3, <1>7, LenProperties, EmptySeq
  <2>4. /\ Len(chat'.answers) <= Len(reply.calls)
        /\ \A i \in 1..Len(chat'.answers) : chat'.answers[i] = i
    BY <2>3
  <2>5. Len(chat'.history) = chat'.safe + 1
    BY <1>5, <1>7, <1>12
  <2>6. QED
    BY <1>2, <1>3, <1>7, <2>1, <2>2, <2>3, <2>4, <2>5 DEF Places
<1>14. Saved'
  <2>1. /\ files[chat.session] \in Seq(Kept) /\ Len(files[chat.session]) <= Len(chat.history)
        /\ Readable(chat.session) /\ Begins(files[chat.session], chat.history)
    BY <1>4, <1>12, LoopFacts
  <2>2. Begins(files[chat.session], h)
    <3>1. Len(h) \in Nat /\ Len(chat.history) <= Len(h)
      BY <1>4, <1>5
    <3>2. QED
      BY <1>4, <1>5, <2>1, <3>1, HistoryKept
  <2>3. Readable(chat.session)'
    BY <1>7, <1>10, <2>1 DEF Readable
  <2>4. QED
    BY <1>7, <1>10, <1>12, <2>1, <2>2, <2>3 DEF Saved
<1>15. /\ Settled = Len(chat.history) /\ Settled' \in {Len(chat.history), Len(chat.history) + 1}
       /\ Settled <= Settled'
  BY <1>4, <1>5, <1>7, <1>12 DEF Settled
<1>16. CopyCovers' /\ FinishedKept'
  BY <1>5, <1>7, <1>9, <1>10, <1>15, SameSession
<1>17. RequestCovers' /\ ApprovalsHonoured'
  BY <1>1, <1>7, <1>10 DEF RequestCovers, ApprovalsHonoured
<1>18. QED
  BY <1>11, <1>13, <1>14, <1>16, <1>17 DEF SessionInv


\* The k-th answer is to the k-th call, and what ran without the user needs no approval.
LEMMA CallKept ==
    ASSUME SessionInv, CallTool \/ RecoverCall
    PROVE  SessionInv'
<1>1. Types /\ Places /\ Saved /\ CopyCovers /\ FinishedKept /\ ApprovalsHonoured
  BY DEF SessionInv
<1>2. /\ chat.pc = "tools" /\ Len(chat.answers) < Len(Reply.calls)
      /\ UNCHANGED <<context, files, active, left>>
  BY DEF CallTool, RecoverCall
<1>3. chat.answers \in Seq(Nat) /\ Len(chat.answers) \in Nat /\ Len(Reply.calls) \in Nat
  BY <1>1, <1>2, LenProperties DEF Types, Chat, Places
<1>4. PICK n \in Nat : n = Len(chat.answers) + 1 /\ n <= Len(Reply.calls)
  BY <1>2, <1>3
<1>5. PICK a \in Seq(Nat) :
          /\ a = Append(chat.answers, n) /\ Len(a) = n /\ a[n] = n
          /\ \A i \in 1..Len(chat.answers) : a[i] = chat.answers[i]
  <2>1. /\ Append(chat.answers, n) \in Seq(Nat)
        /\ Len(Append(chat.answers, n)) = Len(chat.answers) + 1
        /\ Append(chat.answers, n)[Len(chat.answers) + 1] = n
        /\ \A i \in 1..Len(chat.answers) : Append(chat.answers, n)[i] = chat.answers[i]
    BY <1>3, AppendFacts
  <2>2. QED
    BY <1>4, <2>1, Zenon
<1>6. PICK r \in {0, 1} : chat' = [chat EXCEPT !.answers = a, !.recoveries = r]
  <2>1. Answered = [chat EXCEPT !.answers = a]
    BY <1>4, <1>5 DEF Answered
  <2>2. chat.recoveries \in {0, 1} /\ chat \in Chat
    BY <1>1 DEF Types, Chat
  <2>3. CASE CallTool
    <3>1. chat' = [chat EXCEPT !.answers = a]
      BY <2>1, <2>3 DEF CallTool
    <3>2. chat' = [chat EXCEPT !.answers = a, !.recoveries = chat.recoveries]
      BY <2>2, <3>1 DEF Chat
    <3>3. QED
      BY <2>2, <3>2
  <2>4. CASE RecoverCall
    BY <2>1, <2>4 DEF RecoverCall
  <2>5. QED
    BY <2>3, <2>4
<1>7. /\ chat' \in Chat /\ chat'.answers = a /\ chat'.pc = "tools"
      /\ chat'.history = chat.history /\ chat'.safe = chat.safe /\ chat'.session = chat.session
      /\ chat'.object = chat.object /\ chat'.next = chat.next
  BY <1>1, <1>2, <1>6 DEF Types, Chat
<1>8. /\ work' = [ran |-> work'.ran, approved |-> work'.approved, finished |-> work'.finished]
      /\ work'.finished = work.finished
      /\ ApprovalsHonoured'
  <2>1. work = [ran |-> work.ran, approved |-> work.approved, finished |-> work.finished]
    BY <1>1 DEF Types
  <2>2. CASE CallTool
    <3>1. PICK granted \in BOOLEAN :
              work' = [work EXCEPT !.ran = IF Permitted(NextCall, granted) THEN Ran({NextCall}) ELSE @,
                                   !.approved = IF granted THEN @ \cup {NextCall.id} ELSE @]
      BY <2>2 DEF CallTool
    <3>2. /\ work' = [ran |-> work'.ran, approved |-> work'.approved, finished |-> work'.finished]
          /\ work'.finished = work.finished
          /\ work'.ran = IF Permitted(NextCall, granted) THEN Ran({NextCall}) ELSE work.ran
          /\ work'.approved = IF granted THEN work.approved \cup {NextCall.id} ELSE work.approved
      BY <2>1, <3>1
    <3>3. ASSUME NEW ran \in work'.ran, ran.tool \in NeedsApproval
          PROVE  ran.id \in work'.approved
      <4>1. ran \in work.ran \/ (ran = NextCall /\ Permitted(NextCall, granted))
        <5>1. CASE Permitted(NextCall, granted)
          <6>1. work'.ran = work.ran \cup {NextCall}
            BY <3>2, <5>1 DEF Ran
          <6>2. QED
            BY <3>3, <5>1, <6>1
        <5>2. CASE ~Permitted(NextCall, granted)
          <6>1. work'.ran = work.ran
            BY <3>2, <5>2, Zenon
          <6>2. QED
            BY <3>3, <6>1
        <5>3. QED
          BY <5>1, <5>2
      <4>2. CASE ran \in work.ran
        BY <1>1, <3>2, <3>3, <4>2 DEF ApprovalsHonoured
      <4>3. CASE ran = NextCall /\ Permitted(NextCall, granted)
        <5>1. granted
          BY <3>3, <4>3 DEF Permitted
        <5>2. QED
          BY <3>2, <4>3, <5>1
      <4>4. QED
        BY <4>1, <4>2, <4>3
    <3>4. QED
      BY <3>2, <3>3 DEF ApprovalsHonoured
  <2>3. CASE RecoverCall
    <3>1. PICK tool \in RecoveryTools :
              /\ {tool, NextCall.tool} \cap NeedsApproval = {}
              /\ work' = [work EXCEPT !.ran =
                             Ran({NextCall, [id |-> NextCall.id \o <<"recovery">>, tool |-> tool]})]
      BY <2>3 DEF RecoverCall
    <3>2. PICK id : id = NextCall.id \o <<"recovery">>
      OBVIOUS
    <3>3. /\ work' = [ran |-> work'.ran, approved |-> work'.approved, finished |-> work'.finished]
          /\ work'.finished = work.finished /\ work'.approved = work.approved
          /\ work'.ran = Ran({NextCall, [id |-> id, tool |-> tool]})
      BY <2>1, <3>1, <3>2
    <3>4. ASSUME NEW ran \in work'.ran, ran.tool \in NeedsApproval
          PROVE  ran \in work.ran
      <4>1. NextCall.tool \notin NeedsApproval /\ tool \notin NeedsApproval
        BY <3>1
      <4>2. ran \in work.ran \/ ran = NextCall \/ ran = [id |-> id, tool |-> tool]
        BY <3>3 DEF Ran
      <4>3. QED
        BY <3>4, <4>1, <4>2
    <3>5. QED
      BY <1>1, <3>3, <3>4 DEF ApprovalsHonoured
  <2>4. QED
    BY <2>2, <2>3
<1>9. Types'
  BY <1>1, <1>2, <1>7, <1>8 DEF Types
<1>10. Places'
  <2>1. Reply' = Reply
    BY <1>7 DEF Reply
  <2>2. \A i \in 1..Len(a) : a[i] = i
    <3>1. ASSUME NEW i \in 1..Len(a) PROVE a[i] = i
      <4>1. i = n \/ i \in 1..Len(chat.answers)
        BY <1>3, <1>4, <1>5
      <4>2. CASE i = n
        BY <1>5, <4>2
      <4>3. CASE i \in 1..Len(chat.answers)
        BY <1>1, <1>2, <1>5, <4>3 DEF Places
      <4>4. QED
        BY <4>1, <4>2, <4>3
    <3>2. QED
      BY <3>1
  <2>3. Len(a) <= Len(Reply.calls)
    BY <1>4, <1>5
  <2>4. QED
    BY <1>1, <1>2, <1>7, <2>1, <2>2, <2>3 DEF Places
<1>11. Saved'
  BY <1>1, <1>2, <1>7 DEF Saved, Readable
<1>12. Settled' = Settled
  BY <1>2, <1>7 DEF Settled
<1>13. CopyCovers' /\ FinishedKept' /\ RequestCovers'
  BY <1>1, <1>2, <1>7, <1>8, <1>12 DEF CopyCovers, FinishedKept, RequestCovers
<1>14. QED
  BY <1>8, <1>9, <1>10, <1>11, <1>13 DEF SessionInv

\* A batch whose calls are all answered is settled with its results.
LEMMA BatchAnswered ==
    ASSUME SessionInv, FinishBatch
    PROVE  Answers(Reply, Message("results", Reply.n, chat.answers))
<1>1. /\ Reply.calls \in Seq(Tools) /\ Len(chat.answers) = Len(Reply.calls)
      /\ \A i \in 1..Len(chat.answers) : chat.answers[i] = i
      /\ chat.answers \in Seq(Nat)
  BY DEF SessionInv, Places, FinishBatch, Types, Chat
<1>2. DOMAIN Reply.calls = 1..Len(chat.answers) /\ Len(chat.answers) \in Nat
  BY <1>1, LenProperties
<1>3. Range(chat.answers) = {chat.answers[i] : i \in 1..Len(chat.answers)}
  BY <1>1, RangeEquality
<1>4. {chat.answers[i] : i \in 1..Len(chat.answers)} = 1..Len(chat.answers)
  BY <1>1
<1>5. QED
  BY <1>2, <1>3, <1>4 DEF Answers, Message

LEMMA FinishKept ==
    ASSUME SessionInv, FinishBatch
    PROVE  SessionInv'
<1>1. Types /\ Places /\ Saved /\ CopyCovers /\ FinishedKept /\ ApprovalsHonoured
  BY DEF SessionInv
<1>2. chat.pc = "tools" /\ UNCHANGED <<context, files, active, left>>
  BY DEF FinishBatch
<1>3. chat.history \in Seq(Kept) /\ Len(chat.history) \in Nat /\ Len(chat.history) = chat.safe + 1
  BY <1>1, <1>2, LoopFacts DEF Places
<1>4. Len(chat.history) \in 1..Len(chat.history) /\ chat.safe \in Nat
  BY <1>1, <1>3 DEF Types, Chat
<1>5. Reply \in Kept
  BY <1>3, <1>4, ElementOfSeq DEF Reply, Last
<1>6. PICK results \in Kept : results = Message("results", Reply.n, chat.answers)
  <2>1. chat.answers \in Calls
    BY <1>1 DEF Types, Chat, Calls
  <2>2. QED
    BY <1>5, <2>1 DEF Kept, Message
<1>7. PICK h \in Seq(Kept) :
          /\ h = Append(chat.history, results) /\ Len(h) = Len(chat.history) + 1
          /\ h[Len(chat.history) + 1] = results
          /\ \A i \in 1..Len(chat.history) : h[i] = chat.history[i]
  <2>1. /\ Append(chat.history, results) \in Seq(Kept)
        /\ Len(Append(chat.history, results)) = Len(chat.history) + 1
        /\ Append(chat.history, results)[Len(chat.history) + 1] = results
        /\ \A i \in 1..Len(chat.history) : Append(chat.history, results)[i] = chat.history[i]
    BY <1>3, AppendFacts
  <2>2. QED
    BY <2>1, Zenon
<1>8. PICK n \in Nat : n = Len(chat.history) + 1
  BY <1>3
<1>9. chat' = [chat EXCEPT !.pc = "build", !.answers = <<>>, !.safe = n, !.history = h]
  BY <1>6, <1>7, <1>8 DEF FinishBatch
<1>10. /\ chat' \in Chat /\ chat'.pc = "build" /\ chat'.history = h /\ chat'.safe = n
       /\ chat'.session = chat.session /\ chat'.object = chat.object /\ chat'.next = chat.next
  BY <1>1, <1>9, ReadableFacts DEF Types, Chat, Pc
<1>11. /\ work' = [ran |-> work'.ran, approved |-> work'.approved, finished |-> work'.finished]
       /\ work'.ran = {} /\ work'.finished = work.finished \cup {Reply}
  BY DEF FinishBatch, NoWork
<1>12. Types'
  BY <1>1, <1>2, <1>5, <1>10, <1>11 DEF Types
<1>13. Places'
  BY <1>1, <1>2, <1>7, <1>8, <1>10 DEF Places
<1>14. Saved'
  <2>1. /\ files[chat.session] \in Seq(Kept) /\ Len(files[chat.session]) \in Nat
        /\ Len(files[chat.session]) <= chat.safe
        /\ Readable(chat.session) /\ Begins(files[chat.session], chat.history)
    BY <1>2, LoopFacts
  <2>2. Len(files[chat.session]) <= Len(chat.history) /\ Len(files[chat.session]) <= n
    <3> DEFINE f == Len(files[chat.session])
               l == Len(chat.history)
    <3>1. f \in Nat /\ chat.safe \in Nat /\ l \in Nat
      BY <1>3, <1>4, <2>1
    <3>2. f <= chat.safe /\ l = chat.safe + 1 /\ n = l + 1
      BY <1>3, <1>8, <2>1
    <3> HIDE DEF f, l
    <3>3. f <= l /\ f <= n
      BY <3>1, <3>2
    <3>4. QED
      BY <3>3 DEF f, l
  <2>3. Begins(files[chat.session], h)
    <3>1. Len(h) \in Nat /\ Len(chat.history) <= Len(h)
      BY <1>3, <1>7
    <3>2. QED
      BY <1>3, <1>7, <2>1, <2>2, <3>1, HistoryKept
  <2>4. Readable(chat.session)'
    BY <1>2, <1>10, <2>1 DEF Readable
  <2>5. QED
    BY <1>2, <1>10, <2>2, <2>3, <2>4 DEF Saved
<1>15. Settled = chat.safe /\ Settled' = n /\ chat.safe <= n
  BY <1>2, <1>3, <1>4, <1>7, <1>8, <1>10 DEF Settled
<1>16. \A i \in 1..chat.safe : h[i] = chat.history[i]
  BY <1>3, <1>4, <1>7
<1>17. CopyCovers'
  <2>1. context.source <= chat'.object
    BY <1>1, <1>10 DEF CopyCovers
  <2>2. ASSUME context.source = chat.object, context.source # NoObject
        PROVE  context.count <= Settled' /\ Covers(context.copy, h, context.count)
    <3>1. /\ context.count \in Nat /\ context.count <= chat.safe
          /\ Covers(context.copy, chat.history, context.count)
          /\ Len(context.copy) \in Nat
      BY <1>1, <1>15, <2>2, LenProperties DEF CopyCovers, Types, Context
    <3>2. \A i \in 1..context.count : h[i] = chat.history[i]
      BY <1>4, <1>16, <3>1
    <3>3. Covers(context.copy, h, context.count)
      BY <3>1, <3>2, SameCovers
    <3>4. context.count <= Settled'
      BY <1>4, <1>8, <1>15, <3>1
    <3>5. QED
      BY <3>3, <3>4
  <2>3. QED
    BY <1>2, <1>10, <2>1, <2>2 DEF CopyCovers
<1>18. FinishedKept'
  <2>1. ASSUME NEW reply \in work.finished
        PROVE  \E i \in 2..n : h[i - 1] = reply /\ Answers(reply, h[i])
    <3>1. \E i \in 2..chat.safe : chat.history[i - 1] = reply /\ Answers(reply, chat.history[i])
      BY <1>1, <1>15 DEF FinishedKept
    <3>2. QED
      BY <1>4, <1>8, <1>15, <1>16, <3>1, SameFinished
  <2>2. \E i \in 2..n : h[i - 1] = Reply /\ Answers(Reply, h[i])
    <3>1. n \in 2..n /\ n - 1 = Len(chat.history)
      BY <1>3, <1>4, <1>8
    <3>2. h[n - 1] = Reply
      BY <1>4, <1>7, <3>1 DEF Reply, Last
    <3>3. Answers(Reply, h[n])
      BY <1>6, <1>7, <1>8, BatchAnswered
    <3>4. QED
      BY <3>1, <3>2, <3>3
  <2>3. QED
    BY <1>10, <1>11, <1>15, <2>1, <2>2 DEF FinishedKept
<1>19. RequestCovers' /\ ApprovalsHonoured'
  BY <1>10, <1>11 DEF RequestCovers, ApprovalsHonoured
<1>20. QED
  BY <1>12, <1>13, <1>14, <1>17, <1>18, <1>19 DEF SessionInv


-----------------------------------------------------------------------------
(* The invariant and what follows from it *)

LEMMA SessionInvInit == Init => SessionInv
<1> SUFFICES ASSUME Init PROVE SessionInv
  OBVIOUS
<1>1. /\ chat.pc = "off" /\ chat.object = 0 /\ context.source = 0
      /\ chat = Off /\ context = NewContext /\ work = NoWork
  BY OffFacts DEF Init
<1>2. Types
  BY OffFacts, NoWorkFacts, SizesAssumption DEF Init, Types
<1>3. Places /\ Saved /\ RequestCovers
  BY <1>1 DEF Places, Saved, RequestCovers
<1>4. CopyCovers /\ FinishedKept /\ ApprovalsHonoured
  BY <1>1, NoWorkFacts DEF CopyCovers, FinishedKept, ApprovalsHonoured, NoObject
<1>5. QED
  BY <1>2, <1>3, <1>4 DEF SessionInv

LEMMA SessionInvNext ==
    ASSUME SessionInv, [Next]_vars
    PROVE  SessionInv'
<1>1. CASE StartChat \/ SwitchSession
  BY <1>1, OpenKept
<1>2. CASE WriteSession \/ WriteActive
  BY <1>2, WriteKept
<1>3. CASE Die
  BY <1>3, DieKept
<1>4. CASE AskQuery
  BY <1>4, AskKept
<1>5. CASE Abort \/ RaiseInvalid
  BY <1>5, RaisedKept
<1>6. CASE BuildContext
  BY <1>6, BuildKept
<1>7. CASE Respond
  BY <1>7, RespondKept
<1>8. CASE CallTool \/ RecoverCall
  BY <1>8, CallKept
<1>9. CASE FinishBatch
  BY <1>9, FinishKept
<1>10. CASE UNCHANGED vars
  BY <1>10 DEF vars, SessionInv, Types, Places, Saved, CopyCovers, RequestCovers, FinishedKept,
              ApprovalsHonoured, Settled, Reply, Readable
<1>11. QED
  BY <1>1, <1>2, <1>3, <1>4, <1>5, <1>6, <1>7, <1>8, <1>9, <1>10 DEF Next

THEOREM SpecImpliesSessionInv == Spec => []SessionInv
<1>1. QED
  BY SessionInvInit, SessionInvNext, PTL DEF Spec

\* Process, context and budget keep their shape, and outside the input loop what is
\* settled lies within the history (cli/chat.py, agent_loop.py:241).
THEOREM SpecImpliesTypeOK == Spec => []TypeOK
<1>1. SessionInv => TypeOK
  <2> SUFFICES ASSUME SessionInv PROVE TypeOK
    OBVIOUS
  <2>1. Types /\ Places
    BY DEF SessionInv
  <2>2. /\ chat.pc \in Pc /\ chat.next \in {"off", "input", "build"}
        /\ chat.session \in Sessions \cup {NoSession} /\ active \in Sessions \cup {NoSession}
        /\ context.calibration \in 1..6 /\ context.count \in Nat
        /\ \A what \in DOMAIN left : left[what] \in Nat
    BY <2>1 DEF Types, Chat, Context
  <2>3. chat.safe \in 0..Len(chat.history) \/ chat.pc \in {"input", "save", "activate"}
    <3>1. CASE chat.pc \in {"build", "request", "tools"}
      BY <3>1, LoopFacts
    <3>2. CASE chat.pc = "off"
      <4>1. chat.safe = 0 /\ Len(chat.history) = 0
        BY <2>1, <3>2, EmptySeq DEF Places, Off
      <4>2. QED
        BY <4>1
    <3>3. QED
      BY <2>2, <3>1, <3>2 DEF Pc
  <2>4. QED
    BY <2>2, <2>3 DEF TypeOK, Pc
<1>2. QED
  BY <1>1, SpecImpliesSessionInv, PTL

LEMMA BeginsIsPrefix ==
    ASSUME NEW s \in Seq(Kept), NEW t \in Seq(Kept), Begins(s, t)
    PROVE  IsPrefix(s, t)
<1>1. Len(s) \in Nat /\ Len(t) \in Nat /\ Len(s) <= Len(t)
  BY LenProperties DEF Begins
<1>2. SubSeq(s, 1, Len(s)) = s
  BY SubSeqFull
<1>3. Len(s) \in 0..Len(t)
  BY <1>1
<1>4. /\ SubSeq(t, 1, Len(s)) \in Seq(Kept) /\ Len(SubSeq(t, 1, Len(s))) = Len(s)
      /\ \A i \in 1..Len(s) : SubSeq(t, 1, Len(s))[i] = t[i]
  BY <1>3, PrefixFacts
<1>5. \A i \in 1..Len(s) : s[i] = SubSeq(t, 1, Len(s))[i]
  BY <1>4 DEF Begins
<1>6. s = SubSeq(t, 1, Len(s))
  BY <1>4, <1>5, SeqEqual
<1>7. QED
  BY <1>1, <1>2, <1>6 DEF IsPrefix

LEMMA TranscriptsKept ==
    ASSUME SessionInv, [Next]_vars, NEW s \in Sessions, Readable(s)
    PROVE  files'[s] = Torn \/ IsPrefix(files[s], files'[s])
<1>1. Types /\ Places /\ Saved
  BY DEF SessionInv
<1>2. files[s] \in Seq(Kept)
  BY <1>1 DEF Readable, Types
<1>3. files'[s] = files[s] => IsPrefix(files[s], files'[s])
  BY <1>2, BeginsWhole, BeginsIsPrefix
<1>4. CASE WriteSession
  <2>1. CASE s = chat.session
    <3>1. files'[s] = chat.history /\ chat.history \in Seq(Kept)
      BY <1>1, <1>4, <2>1 DEF WriteSession, Types, Chat
    <3>2. Begins(files[s], chat.history)
      BY <1>1, <1>4, <2>1 DEF WriteSession, Saved, Readable
    <3>3. QED
      BY <1>2, <3>1, <3>2, BeginsIsPrefix
  <2>2. CASE s # chat.session
    BY <1>1, <1>3, <1>4, <2>2 DEF WriteSession, Types
  <2>3. QED
    BY <2>1, <2>2
<1>5. CASE Die
  BY <1>1, <1>3, <1>5 DEF Die, Types
<1>6. CASE ~WriteSession /\ ~Die
  <2>1. UNCHANGED files
    BY <1>6 DEF Next, vars, StartChat, SwitchSession, WriteActive, AskQuery, Abort, BuildContext,
                Respond, RaiseInvalid, CallTool, RecoverCall, FinishBatch
  <2>2. QED
    BY <1>3, <2>1
<1>7. QED
  BY <1>4, <1>5, <1>6

\* Whatever is interrupted or taken back, a transcript that can be read is continued or cut
\* off by the death of a writer, never shortened or rewritten (chat_session_store.py:75).
THEOREM SpecImpliesTranscriptsGrow == Spec => TranscriptsGrow
<1> DEFINE Grow == \A s \in Sessions : Readable(s) =>
                       files'[s] = Torn \/ IsPrefix(files[s], files'[s])
<1>1. SessionInv /\ [Next]_vars => Grow
  BY TranscriptsKept
<1>2. SessionInv /\ [Next]_vars => [Grow]_vars
  BY <1>1
<1>3. QED
  BY <1>2, SpecImpliesSessionInv, PTL DEF Spec, TranscriptsGrow


\* The history that goes out, or a summary and the rest of it.
LEMMA CoversIsHistory ==
    ASSUME NEW h \in Seq(Kept), NEW m \in Seq(Sent), Covers(m, h, Len(h))
    PROVE  \/ m = h
           \/ /\ m # <<>> /\ Head(m).kind = "summary" /\ Head(m).n \in 1..Len(h)
              /\ Tail(m) = SubSeq(h, Head(m).n + 1, Len(h))
<1>1. Len(h) \in Nat /\ Len(m) \in Nat /\ h \in Seq(Sent)
  BY LenProperties, KeptIsSent
<1>2. CASE Len(m) = Len(h) /\ \A i \in 1..Len(h) : m[i] = h[i]
  BY <1>1, <1>2, SeqEqual
<1>3. CASE /\ m # <<>> /\ m[1].kind = "summary"
           /\ m[1].n \in 1 .. Len(h) - 1
           /\ Len(m) = 1 + Len(h) - m[1].n
           /\ \A i \in 2..Len(m) : m[i] = h[m[1].n + i - 1]
  <2>1. PICK n \in 1 .. Len(h) - 1 : n = m[1].n /\ Len(m) = 1 + Len(h) - n
    BY <1>3
  <2>2. /\ Head(m) = m[1] /\ Tail(m) \in Seq(Sent) /\ Len(Tail(m)) = Len(m) - 1
        /\ \A i \in 1 .. Len(m) - 1 : Tail(m)[i] = m[i + 1]
    <3>1. /\ Tail(m) \in Seq(Sent) /\ Len(Tail(m)) = Len(m) - 1
          /\ \A i \in 1..Len(Tail(m)) : Tail(m)[i] = m[i + 1]
      BY <1>3, HeadTailProperties
    <3>2. Head(m) = m[1]
      BY <1>3
    <3>3. QED
      BY <3>1, <3>2
  <2>3. /\ SubSeq(h, n + 1, Len(h)) \in Seq(Sent)
        /\ Len(SubSeq(h, n + 1, Len(h))) =
              IF n + 1 <= Len(h) THEN Len(h) - (n + 1) + 1 ELSE 0
        /\ \A i \in 1 .. Len(h) - (n + 1) + 1 : SubSeq(h, n + 1, Len(h))[i] = h[n + 1 + i - 1]
    <3>1. \A i \in n + 1 .. Len(h) : h[i] \in Sent
      BY <1>1, ElementOfSeq
    <3>2. n + 1 \in Int /\ Len(h) \in Int
      BY <1>1
    <3>3. QED
      BY <3>1, <3>2, SubSeqProperties
  <2> DEFINE rest == SubSeq(h, n + 1, Len(h))
             tail == Tail(m)
             l    == Len(h)
  <2>4. l \in Nat /\ n \in 1 .. l - 1 /\ Len(m) = 1 + l - n
    BY <1>1, <2>1
  <2>5. Len(rest) = l - n /\ Len(tail) = l - n
    BY <2>2, <2>3, <2>4
  <2>6. \A i \in 1 .. l - n : rest[i] = h[n + i]
    BY <2>3, <2>4
  <2>7. ASSUME NEW i \in 1 .. l - n PROVE tail[i] = h[n + i]
    <3>1. i + 1 \in 2..Len(m) /\ i \in 1 .. Len(m) - 1 /\ n + (i + 1) - 1 = n + i
      BY <2>4
    <3>2. m[i + 1] = h[n + (i + 1) - 1]
      BY <1>3, <2>1, <3>1
    <3>3. QED
      BY <2>2, <3>1, <3>2
  <2>8. tail \in Seq(Sent) /\ rest \in Seq(Sent)
    BY <2>2, <2>3
  <2> HIDE DEF rest, tail
  <2>9. tail = rest
    BY <2>5, <2>6, <2>7, <2>8, SeqEqual
  <2> HIDE DEF l
  <2>10. Head(m).kind = "summary" /\ Head(m).n = n /\ n \in 1..Len(h)
    BY <1>3, <2>1, <2>2, <2>4 DEF l
  <2>11. QED
    BY <1>3, <2>9, <2>10 DEF tail, rest
<1>4. QED
  BY <1>2, <1>3 DEF Covers

\* What goes out is the whole history, finished batches are on disk when the user can type,
\* and what needed an approval had it (context_manager.py:144, cli/chat.py:187,
\* permission_hook.py:47); also when a reply is cut off inside a call.
THEOREM SpecImpliesWorkKept ==
    Spec => [](RequestCoversHistory /\ WorkRemembered /\ ApprovalsHonoured)
<1>1. SessionInv => RequestCoversHistory /\ WorkRemembered /\ ApprovalsHonoured
  <2> SUFFICES ASSUME SessionInv
               PROVE  RequestCoversHistory /\ WorkRemembered /\ ApprovalsHonoured
    OBVIOUS
  <2>1. Types /\ Saved /\ RequestCovers /\ FinishedKept /\ ApprovalsHonoured
    BY DEF SessionInv
  <2>2. chat.history \in Seq(Kept) /\ chat.outbound \in Seq(Sent) /\ Len(chat.history) \in Nat
    BY <2>1, LenProperties DEF Types, Chat
  <2>3. RequestCoversHistory
    BY <2>1, <2>2, CoversIsHistory DEF RequestCovers, RequestCoversHistory
  <2>4. WorkRemembered
    <3>1. SUFFICES ASSUME chat.pc = "input" PROVE WorkRemembered
      BY DEF WorkRemembered
    <3>2. files[chat.session] = chat.history /\ Settled = Len(chat.history)
      BY <2>1, <3>1 DEF Saved, Settled
    <3>3. ASSUME NEW reply \in work.finished
          PROVE  \E i \in DOMAIN chat.history \ {1} :
                    chat.history[i - 1] = reply /\ Answers(reply, chat.history[i])
      <4>1. PICK i \in 2..Len(chat.history) :
                chat.history[i - 1] = reply /\ Answers(reply, chat.history[i])
        BY <2>1, <3>2 DEF FinishedKept
      <4>2. i \in DOMAIN chat.history \ {1}
        BY <2>2, LenProperties
      <4>3. QED
        BY <4>1, <4>2
    <3>4. QED
      BY <3>2, <3>3 DEF WorkRemembered
  <2>5. QED
    BY <2>1, <2>3, <2>4
<1>2. QED
  BY <1>1, SpecImpliesSessionInv, PTL



-----------------------------------------------------------------------------
(* Requests the model accepts *)

\* The results of a reply complete its exchange.
LEMMA ValidBatch ==
    ASSUME NEW S, NEW h \in Seq(S), NEW k \in Nat, Len(h) = k + 1, ValidUpTo(h, k),
           NEW results \in S, h[k + 1].kind = "reply", results.kind = "results",
           Answers(h[k + 1], results)
    PROVE  ValidUpTo(Append(h, results), k + 2)
<1> DEFINE g == Append(h, results)
<1>1. (\A i \in 1 .. k + 1 : g[i] = h[i]) /\ g[k + 2] = results
  BY AppendFacts
<1> HIDE DEF g
<1>2. ValidUpTo(g, k)
  <2>1. \A i \in 1..k : g[i] = h[i]
    BY <1>1
  <2>2. QED
    BY <2>1, SameValid
<1>3. ASSUME NEW i \in 1 .. k + 2
      PROVE  /\ g[i].kind = "reply" /\ g[i].calls # <<>> =>
                   i < k + 2 /\ Answers(g[i], g[i + 1])
             /\ g[i].kind = "results" =>
                   i > 1 /\ g[i - 1].kind = "reply" /\ Answers(g[i - 1], g[i])
  <2>1. CASE i = k + 1
    <3>1. g[i] = h[k + 1] /\ g[i + 1] = results /\ i < k + 2
      BY <1>1, <2>1
    <3>2. QED
      BY <3>1
  <2>2. CASE i = k + 2
    <3>1. g[i] = results /\ g[i - 1] = h[k + 1] /\ i > 1
      BY <1>1, <2>2
    <3>2. QED
      BY <3>1
  <2>3. CASE i # k + 1 /\ i # k + 2
    <3>1. i \in 1..k /\ (i < k => i < k + 2)
      BY <2>3
    <3>2. QED
      BY <1>2, <3>1 DEF ValidUpTo
  <2>4. QED
    BY <2>1, <2>2, <2>3
<1>4. ValidUpTo(g, k + 2)
  BY <1>3 DEF ValidUpTo
<1>5. QED
  BY <1>4 DEF g

\* For the steps that neither write nor send.
LEMMA OnlyHistory ==
    ASSUME ValidInv, ValidUpTo(chat.history, Settled)', files' = files,
           context'.source = context.source, context'.copy = context.copy,
           chat'.pc # "request"
    PROVE  ValidInv'
BY DEF ValidInv, Readable

LEMMA OpenValid ==
    ASSUME SessionInv, ValidInv, StartChat \/ SwitchSession
    PROVE  ValidInv'
<1>1. UNCHANGED <<context, files>>
  BY OpenFacts
<1>2. PICK s \in Sessions, t \in Seq(Kept), p \in {"save", "activate", "input"} :
          /\ chat' = Opened(s, t, p)
          /\ p = "save" => t = <<>>
          /\ p # "save" => Readable(s) /\ files[s] = t
  BY OpenFacts
<1>3. chat'.pc = p /\ chat'.history = t
  BY <1>2 DEF Opened, SessionInv, Types, Chat
<1>4. ValidUpTo(t, Len(t))
  <2>1. CASE p = "save"
    <3>1. Len(t) = 0
      BY <1>2, <2>1, EmptySeq
    <3>2. QED
      BY <3>1 DEF ValidUpTo
  <2>2. CASE p # "save"
    BY <1>2, <2>2 DEF ValidInv
  <2>3. QED
    BY <2>1, <2>2
<1>5. ValidUpTo(chat.history, Settled)'
  BY <1>3, <1>4 DEF Settled
<1>6. QED
  BY <1>1, <1>3, <1>5, OnlyHistory

LEMMA WriteValid ==
    ASSUME SessionInv, ValidInv, WriteSession \/ WriteActive
    PROVE  ValidInv'
<1>1. Types /\ Places
  BY DEF SessionInv
<1>2. /\ chat.pc \in {"save", "activate"} /\ UNCHANGED context
      /\ chat'.pc \in {"activate", "input", "build"} /\ chat'.history = chat.history
  BY <1>1 DEF WriteSession, WriteActive, Types, Chat, Places
<1>3. ValidUpTo(chat.history, Len(chat.history))
  BY <1>2 DEF ValidInv, Settled
<1>4. ValidUpTo(chat.history, Settled)'
  BY <1>2, <1>3 DEF Settled
<1>5. ASSUME NEW s \in Sessions, Readable(s)' PROVE ValidUpTo(files'[s], Len(files'[s]))
  <2>1. CASE files'[s] = files[s]
    BY <1>5, <2>1 DEF ValidInv, Readable
  <2>2. CASE files'[s] # files[s]
    <3>1. files'[s] = chat.history
      BY <1>1, <2>2 DEF WriteSession, WriteActive, Types
    <3>2. QED
      BY <1>3, <3>1
  <2>3. QED
    BY <2>1, <2>2
<1>6. QED
  BY <1>2, <1>4, <1>5 DEF ValidInv

LEMMA DieValid ==
    ASSUME SessionInv, ValidInv, Die
    PROVE  ValidInv'
<1>1. Types
  BY DEF SessionInv
<1>2. chat' = Off /\ context' = NewContext
  BY DEF Die
<1>3. chat'.pc = "off" /\ chat'.history = <<>> /\ context'.source = NoObject
  BY <1>2, OffFacts DEF Off
<1>4. ValidUpTo(chat.history, Settled)'
  <2>1. Settled' = 0
    BY <1>3, EmptySeq DEF Settled
  <2>2. QED
    BY <2>1 DEF ValidUpTo
<1>5. ASSUME NEW s \in Sessions, Readable(s)' PROVE ValidUpTo(files'[s], Len(files'[s]))
  <2>1. files'[s] = files[s]
    BY <1>1, <1>5 DEF Die, Types, Readable
  <2>2. QED
    BY <1>5, <2>1 DEF ValidInv, Readable
<1>6. QED
  BY <1>3, <1>4, <1>5 DEF ValidInv

LEMMA AskValid ==
    ASSUME SessionInv, ValidInv, AskQuery
    PROVE  ValidInv'
<1>1. Types
  BY DEF SessionInv
<1>2. chat.history \in Seq(Kept) /\ chat.pc = "input" /\ UNCHANGED <<context, files>>
  BY <1>1 DEF Types, Chat, AskQuery
<1>3. PICK query \in Kept : query = Message("query", Fresh, <<>>) /\ query.kind = "query"
  <2>1. Message("query", Fresh, <<>>) \in Kept
    BY <1>1, FreshTyped, ReadableFacts DEF Kept, Message
  <2>2. Message("query", Fresh, <<>>).kind = "query"
    BY DEF Message
  <2>3. QED
    BY <2>1, <2>2, Zenon
<1>4. chat'.pc = "save" /\ chat'.history = Append(chat.history, query)
  BY <1>1, <1>3 DEF AskQuery, Types, Chat
<1>5. ValidUpTo(Append(chat.history, query), Len(chat.history) + 1)
  <2>1. ValidUpTo(chat.history, Len(chat.history))
    BY <1>2 DEF ValidInv, Settled
  <2>2. QED
    BY <1>2, <1>3, <2>1, ValidAppend
<1>6. Len(Append(chat.history, query)) = Len(chat.history) + 1
  BY <1>2, <1>3, AppendFacts
<1>7. ValidUpTo(chat.history, Settled)'
  BY <1>4, <1>5, <1>6 DEF Settled
<1>8. QED
  BY <1>2, <1>4, <1>7, OnlyHistory

LEMMA RaisedValid ==
    ASSUME SessionInv, ValidInv, Abort \/ RaiseInvalid
    PROVE  ValidInv'
<1>1. /\ chat.pc \in {"build", "request", "tools"} /\ chat' = Raised
      /\ UNCHANGED <<context, files>>
  BY DEF Abort, RaiseInvalid
<1>2. /\ chat.history \in Seq(Kept) /\ chat.safe \in 0..Len(chat.history) /\ chat.safe \in Nat
      /\ ValidUpTo(chat.history, chat.safe)
  BY <1>1, LoopFacts DEF ValidInv
<1>3. PICK h \in Seq(Kept) :
          /\ h = SubSeq(chat.history, 1, chat.safe) /\ Len(h) = chat.safe
          /\ \A i \in 1..chat.safe : h[i] = chat.history[i]
  <2>1. /\ SubSeq(chat.history, 1, chat.safe) \in Seq(Kept)
        /\ Len(SubSeq(chat.history, 1, chat.safe)) = chat.safe
        /\ \A i \in 1..chat.safe : SubSeq(chat.history, 1, chat.safe)[i] = chat.history[i]
    BY <1>2, PrefixFacts
  <2>2. QED
    BY <2>1, Zenon
<1>4. chat'.pc = "save" /\ chat'.history = h
  BY <1>1, <1>3 DEF Raised, RolledBack, SessionInv, Types, Chat
<1>5. ValidUpTo(h, chat.safe)
  BY <1>2, <1>3, SameValid
<1>6. ValidUpTo(chat.history, Settled)'
  BY <1>3, <1>4, <1>5 DEF Settled
<1>7. QED
  BY <1>1, <1>4, <1>6, OnlyHistory


\* A copy that is continued or shortened stays one that was cut before a reply.
LEMMA BuildValid ==
    ASSUME SessionInv, ValidInv, BuildContext
    PROVE  ValidInv'
<1> DEFINE copied == IF Reuses
                     THEN context.copy \o SubSeq(chat.history, context.count + 1, Len(chat.history))
                     ELSE chat.history
           sent   == IF TooLong(copied) THEN Compacted(copied) ELSE copied
<1>1. Types /\ CopyCovers
  BY DEF SessionInv
<1>2. /\ chat.pc = "build" /\ chat' = [chat EXCEPT !.pc = "request", !.outbound = sent]
      /\ \/ context' = [context EXCEPT !.source = chat.object, !.copy = sent,
                                       !.count = Len(chat.history)]
         \/ context' = [NewContext EXCEPT !.calibration = context.calibration]
      /\ UNCHANGED files
  BY DEF BuildContext
<1>3. /\ chat.history \in Seq(Kept) /\ chat.history \in Seq(Sent) /\ Len(chat.history) \in Nat
      /\ ValidUpTo(chat.history, Len(chat.history))
  BY <1>2, LoopFacts, KeptIsSent DEF ValidInv, Settled
<1>4. /\ copied \in Seq(Sent) /\ Covers(copied, chat.history, Len(chat.history))
      /\ CutBeforeReply(copied)
  <2>1. CASE Reuses
    <3>1. /\ context.copy \in Seq(Sent) /\ context.count \in 0..Len(chat.history)
          /\ Covers(context.copy, chat.history, context.count)
          /\ CutBeforeReply(context.copy)
      BY <1>1, <1>3, <2>1 DEF Reuses, CopyCovers, Types, Context, ValidInv
    <3> DEFINE more == context.copy \o SubSeq(chat.history, context.count + 1, Len(chat.history))
    <3>2. more \in Seq(Sent)
      BY <1>3, <3>1, ExtendedFacts
    <3>3. Covers(more, chat.history, Len(chat.history))
      BY <1>3, <3>1, CoversExtended
    <3>4. CutBeforeReply(more)
      BY <1>3, <3>1, CutExtended
    <3> HIDE DEF more
    <3>5. copied = more
      BY <2>1 DEF more
    <3> HIDE DEF copied
    <3>6. QED
      BY <3>2, <3>3, <3>4, <3>5
  <2>2. CASE ~Reuses
    <3>1. CutBeforeReply(chat.history)
      <4>1. SUFFICES ASSUME chat.history # <<>>, chat.history[1].kind = "summary" PROVE FALSE
        BY DEF CutBeforeReply
      <4>2. Len(chat.history) # 0
        BY <1>3, <4>1, EmptySeq
      <4>3. 1 \in 1..Len(chat.history)
        BY <1>3, <4>2
      <4>4. QED
        BY <1>3, <4>1, <4>3, KeptIsSent
    <3>2. QED
      BY <1>3, <2>2, <3>1, CoversWhole
  <2>3. QED
    BY <2>1, <2>2
<1> HIDE DEF copied
<1>5. CutBeforeReply(sent)
  <2>1. ValidUpTo(copied, Len(copied))
    BY <1>3, <1>4, CoversValid
  <2>2. CutBeforeReply(Compacted(copied))
    BY <1>4, <2>1, CutCompacted
  <2>3. QED
    BY <1>4, <2>2
<1> HIDE DEF sent
<1>6. chat'.pc = "request" /\ chat'.outbound = sent /\ chat'.history = chat.history
  BY <1>1, <1>2 DEF Types, Chat
<1>7. context'.copy = sent \/ context'.source = NoObject
  <2>1. CASE context' = [context EXCEPT !.source = chat.object, !.copy = sent,
                                        !.count = Len(chat.history)]
    BY <1>1, <2>1 DEF Types, Context
  <2>2. CASE context' = [NewContext EXCEPT !.calibration = context.calibration]
    BY <2>2 DEF NewContext
  <2>3. QED
    BY <1>2, <2>1, <2>2
<1>8. ValidUpTo(chat.history, Settled)'
  BY <1>3, <1>6 DEF Settled
<1>9. QED
  BY <1>2, <1>5, <1>6, <1>7, <1>8 DEF ValidInv, Readable

\* A reply that ends the request has no calls or was cut off.
LEMMA RespondValid ==
    ASSUME SessionInv, ValidInv, Respond
    PROVE  ValidInv'
<1>1. Types /\ Places
  BY DEF SessionInv
<1>2. PICK calls \in Seq(Tools), kind \in {"reply", "cut"}, to \in {"save", "tools"} :
          /\ chat' = [chat EXCEPT !.pc = to, !.next = "input", !.outbound = <<>>, !.answers = <<>>,
                                  !.history = Append(@, Message(kind, Fresh, calls))]
          /\ to = "save" => kind = "cut" \/ calls = <<>>
  BY RespondFacts
<1>3. PICK reply \in Kept : reply = Message(kind, Fresh, calls) /\ reply.kind = kind
                             /\ reply.calls = calls
  <2>1. Message(kind, Fresh, calls) \in Kept
    BY <1>1, FreshTyped DEF Kept, Calls, Message
  <2>2. /\ Message(kind, Fresh, calls).kind = kind
        /\ Message(kind, Fresh, calls).calls = calls
    BY DEF Message
  <2>3. QED
    BY <2>1, <2>2, Zenon
<1>4. /\ chat.history \in Seq(Kept) /\ Len(chat.history) \in Nat /\ chat.pc = "request"
      /\ chat.safe = Len(chat.history) /\ ValidUpTo(chat.history, Len(chat.history))
  BY <1>1, LoopFacts DEF Respond, Places, ValidInv, Settled
<1>5. PICK h \in Seq(Kept) :
          /\ h = Append(chat.history, reply) /\ Len(h) = Len(chat.history) + 1
          /\ \A i \in 1..Len(chat.history) : h[i] = chat.history[i]
  <2>1. /\ Append(chat.history, reply) \in Seq(Kept)
        /\ Len(Append(chat.history, reply)) = Len(chat.history) + 1
        /\ \A i \in 1..Len(chat.history) : Append(chat.history, reply)[i] = chat.history[i]
    BY <1>4, AppendFacts
  <2>2. QED
    BY <2>1, Zenon
<1>6. chat' = [chat EXCEPT !.pc = to, !.next = "input", !.outbound = <<>>, !.answers = <<>>,
                           !.history = h]
  BY <1>2, <1>3, <1>5
<1>7. chat'.pc = to /\ chat'.history = h /\ chat'.safe = chat.safe
  BY <1>1, <1>6 DEF Types, Chat
<1>8. /\ UNCHANGED files
      /\ context'.source = context.source /\ context'.copy = context.copy
  <2>1. PICK ratio \in Ratios : context' = [context EXCEPT !.calibration = Observed(ratio)]
    BY DEF Respond
  <2>2. QED
    BY <1>1, <2>1 DEF Respond, Types, Context
<1>9. ValidUpTo(chat.history, Settled)'
  <2>1. CASE to = "save"
    <3>1. ValidUpTo(h, Len(chat.history) + 1)
      BY <1>2, <1>3, <1>4, <1>5, <2>1, ValidAppend
    <3>2. Settled' = Len(chat.history) + 1
      BY <1>5, <1>7, <2>1 DEF Settled
    <3>3. QED
      BY <1>7, <3>1, <3>2
  <2>2. CASE to = "tools"
    <3>1. ValidUpTo(h, Len(chat.history))
      BY <1>4, <1>5, SameValid
    <3>2. Settled' = Len(chat.history)
      BY <1>4, <1>7, <2>2 DEF Settled
    <3>3. QED
      BY <1>7, <3>1, <3>2
  <2>3. QED
    BY <2>1, <2>2
<1>10. QED
  BY <1>7, <1>8, <1>9, OnlyHistory

LEMMA CallValid ==
    ASSUME SessionInv, ValidInv, CallTool \/ RecoverCall
    PROVE  ValidInv'
<1>1. Types
  BY DEF SessionInv
<1>2. chat.pc = "tools" /\ UNCHANGED <<context, files>>
  BY DEF CallTool, RecoverCall
<1>3. chat'.pc = "tools" /\ chat'.history = chat.history /\ chat'.safe = chat.safe
  BY <1>1, <1>2 DEF CallTool, RecoverCall, Answered, Types, Chat
<1>4. ValidUpTo(chat.history, Settled)'
  BY <1>2, <1>3 DEF ValidInv, Settled
<1>5. QED
  BY <1>2, <1>3, <1>4, OnlyHistory

LEMMA FinishValid ==
    ASSUME SessionInv, ValidInv, FinishBatch
    PROVE  ValidInv'
<1>1. Types /\ Places
  BY DEF SessionInv
<1>2. chat.pc = "tools" /\ UNCHANGED <<context, files>>
  BY DEF FinishBatch
<1>3. PICK k \in Nat :
          /\ k = chat.safe /\ Len(chat.history) = k + 1 /\ chat.history \in Seq(Kept)
          /\ ValidUpTo(chat.history, k)
          /\ Reply = chat.history[k + 1] /\ Reply.kind = "reply" /\ Reply \in Kept
  <2>1. /\ chat.safe \in Nat /\ Len(chat.history) = chat.safe + 1 /\ chat.history \in Seq(Kept)
        /\ Reply.kind = "reply"
    BY <1>1, <1>2 DEF Places, Types, Chat
  <2>2. Reply = chat.history[chat.safe + 1]
    BY <2>1 DEF Reply, Last
  <2>3. chat.safe + 1 \in 1..Len(chat.history)
    BY <2>1
  <2>4. Reply \in Kept
    BY <2>1, <2>2, <2>3, ElementOfSeq
  <2>5. ValidUpTo(chat.history, chat.safe)
    BY <1>2 DEF ValidInv, Settled
  <2>6. QED
    BY <2>1, <2>2, <2>4, <2>5
<1>4. PICK results \in Kept : results = Message("results", Reply.n, chat.answers)
                               /\ results.kind = "results" /\ Answers(Reply, results)
  <2>1. chat.answers \in Calls
    BY <1>1 DEF Types, Chat, Calls
  <2>2. Message("results", Reply.n, chat.answers) \in Kept
    BY <1>3, <2>1 DEF Kept, Message
  <2>3. /\ Message("results", Reply.n, chat.answers).kind = "results"
        /\ Answers(Reply, Message("results", Reply.n, chat.answers))
    BY BatchAnswered DEF Message
  <2>4. QED
    BY <2>2, <2>3, Zenon
<1>5. chat'.pc = "build" /\ chat'.history = Append(chat.history, results)
  BY <1>1, <1>4 DEF FinishBatch, Types, Chat
<1>6. ValidUpTo(Append(chat.history, results), k + 2)
  BY <1>3, <1>4, ValidBatch
<1>7. Len(Append(chat.history, results)) = k + 2
  BY <1>3, <1>4, AppendFacts
<1>8. ValidUpTo(chat.history, Settled)'
  BY <1>5, <1>6, <1>7 DEF Settled
<1>9. QED
  BY <1>2, <1>5, <1>8, OnlyHistory

LEMMA ValidInvInit == Init => ValidInv
<1> SUFFICES ASSUME Init PROVE ValidInv
  OBVIOUS
<1>1. chat.pc = "off" /\ chat.history = <<>> /\ context.source = NoObject
  BY OffFacts DEF Init, Off
<1>2. Settled = 0
  BY <1>1, EmptySeq DEF Settled
<1>3. \A s \in Sessions : ~Readable(s)
  BY DEF Init, Readable
<1>4. QED
  BY <1>1, <1>2, <1>3 DEF ValidInv, ValidUpTo

LEMMA ValidInvNext ==
    ASSUME SessionInv, ValidInv, [Next]_vars
    PROVE  ValidInv'
<1>1. CASE StartChat \/ SwitchSession
  BY <1>1, OpenValid
<1>2. CASE WriteSession \/ WriteActive
  BY <1>2, WriteValid
<1>3. CASE Die
  BY <1>3, DieValid
<1>4. CASE AskQuery
  BY <1>4, AskValid
<1>5. CASE Abort \/ RaiseInvalid
  BY <1>5, RaisedValid
<1>6. CASE BuildContext
  BY <1>6, BuildValid
<1>7. CASE Respond
  BY <1>7, RespondValid
<1>8. CASE CallTool \/ RecoverCall
  BY <1>8, CallValid
<1>9. CASE FinishBatch
  BY <1>9, FinishValid
<1>10. CASE UNCHANGED vars
  BY <1>10 DEF vars, ValidInv, Settled, Readable
<1>11. QED
  BY <1>1, <1>2, <1>3, <1>4, <1>5, <1>6, <1>7, <1>8, <1>9, <1>10 DEF Next

\* Whatever was interrupted, taken back, compacted or continued from an earlier copy, a
\* request leaves no call open but those of a reply that was itself cut off; with what
\* SpecImpliesWorkKept says (agent_loop.py:204, 243, context_manager.py:372).
THEOREM SpecImpliesSessionSound == Spec => []SessionSound
<1>1. Spec => [](SessionInv /\ ValidInv)
  <2>1. Init => SessionInv /\ ValidInv
    BY SessionInvInit, ValidInvInit
  <2>2. SessionInv /\ ValidInv /\ [Next]_vars => (SessionInv /\ ValidInv)'
    BY SessionInvNext, ValidInvNext
  <2>3. QED
    BY <2>1, <2>2, PTL DEF Spec
<1>2. SessionInv /\ ValidInv => RequestsProtocolValid
  <2> SUFFICES ASSUME SessionInv, ValidInv, chat.pc = "request"
               PROVE  Conversation(chat.outbound)
    BY DEF RequestsProtocolValid
  <2>1. /\ chat.history \in Seq(Kept) /\ chat.outbound \in Seq(Sent)
        /\ Covers(chat.outbound, chat.history, Len(chat.history))
    BY DEF SessionInv, Types, Chat, RequestCovers
  <2>2. CutBeforeReply(chat.outbound) /\ ValidUpTo(chat.history, Len(chat.history))
    BY DEF ValidInv, Settled
  <2>3. ValidUpTo(chat.outbound, Len(chat.outbound))
    BY <2>1, <2>2, CoversValid
  <2>4. QED
    BY <2>1, <2>3, ValidIsConversation
<1>3. RequestsProtocolValid /\ RequestCoversHistory /\ WorkRemembered /\ ApprovalsHonoured
          => SessionSound
  BY DEF SessionSound
<1>4. QED
  BY <1>1, <1>2, <1>3, SpecImpliesWorkKept, PTL

===============================================================================
