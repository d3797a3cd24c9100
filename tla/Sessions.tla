------------------------------ MODULE Sessions ------------------------------
(***************************************************************************)
(* One session of the conversation store (internal/core/session/           *)
(* manager.go) and the workers that handle its messages (agent/            *)
(* manager.go, agent/helper.go, agent/context_compression.go).  A turn     *)
(* takes the session from the cache or the disk, gives the model its       *)
(* recent history, appends what is new, saves, and may replace the older   *)
(* part of the history by a summary; /new deletes the session and begins   *)
(* another one.  Several workers handle messages of one session at once;   *)
(* the process can be killed at any step.  A Save is a file that is        *)
(* created, written in two parts and renamed, so two Saves can work on one *)
(* temporary file.  The model answers at once, after a call of two tools,  *)
(* or after an answer that was cut off; a limit or an interruption may end *)
(* the run instead; the context may be refused as too long once.           *)
(***************************************************************************)
EXTENDS Integers, Sequences, FiniteSets, SequencesExt, Functions, TLC

CONSTANTS
  Turns, Resets,   \* the messages to the session; those that are /new
  Told, Stored,    \* two turns before, of which the saved session has a summary and the messages
  Workers,         \* effectiveInboundWorkers
  Objects, Inodes, \* bounds: *Session values and files alive at one time
  MaxHistory,      \* Agents.Defaults.MaxHistoryMessages
  MaxCrashes,      \* bound: how often the process is killed
  None

ASSUME SessionsAssumption ==
  /\ Turns \cap Resets = {} /\ Told # Stored /\ {Told, Stored} \cap (Turns \cup Resets) = {}
  /\ Workers \in Nat /\ MaxHistory \in Nat \ {0} /\ MaxCrashes \in Nat
  /\ None \notin Objects \cup Inodes

Handlings == Turns \cup Resets
Calls == 1 .. 2    \* the tool calls of one assistant message
Message(t, role, n) == [turn |-> t, role |-> role, n |-> n]
AllTurns == Turns \cup {Told, Stored}
\* An assistant message is a call whose tools are run, one whose are not, or a reply.
Assistant == {"call", "unrun", "reply"}
Messages == [turn : AllTurns, role : {"user"} \cup Assistant, n : 0 .. 2]
              \cup [turn : AllTurns, role : {"tool"}, n : Calls]

VARIABLES
  cached,     \* Manager.sessions: the object of the session
  msgs, summary,  \* Session.Messages; the messages Session.Summary tells of
  main, tmp,  \* the files <key>.jsonl and <key>.jsonl.tmp
  meta, body, \* the two parts of a file: the metadata line with the summary, the messages
  written,    \* which of them the file has
  pc, obj,    \* where each handling is, and the object it works on
  save, fd,   \* where its Save is, and the file it writes
  history,    \* what GetHistorySafe gave it
  adding, added,  \* the messages updateSession adds; how many it has added
  replacing,  \* the summary it was told, or is about to set
  kept,       \* the history its compaction keeps
  crashes,
  said, reset,    \* ghosts: what returned turns added since the last /new; the turns before it
  overlapped, \* two handlings have been under way at once
  spoiled     \* what has happened that may lose messages, see KeptOnce

objects == <<cached, msgs, summary>>
files == <<main, tmp, meta, body, written>>
locals == <<history, adding, added, replacing, kept>>
ghosts == <<said, reset, overlapped, spoiled>>
vars == <<objects, files, pc, obj, save, fd, locals, crashes, ghosts>>

Between == {"none", "returned", "killed"}
Phases == Between \cup {"open", "told", "answered", "summarized", "adding", "added", "saved",
                        "cut", "summary", "replace", "compacted", "deleted", "created"}
Saving == {"no", "meta", "body", "rename"}
Parts == {"meta", "body"}

TypeOK ==
  /\ cached \in Objects \cup {None}
  /\ msgs \in [Objects -> Seq(Messages)] /\ summary \in [Objects -> SUBSET Messages]
  /\ main \in Inodes \cup {None} /\ tmp \in Inodes \cup {None}
  /\ main = None \/ main # tmp
  /\ meta \in [Inodes -> SUBSET Messages] /\ body \in [Inodes -> Seq(Messages)]
  /\ written \in [Inodes -> SUBSET Parts]
  /\ pc \in [Handlings -> Phases] /\ obj \in [Handlings -> Objects \cup {None}]
  /\ save \in [Handlings -> Saving] /\ fd \in [Handlings -> Inodes \cup {None}]
  /\ \A h \in Handlings : save[h] \in {"meta", "body", "rename"} <=> fd[h] # None
  /\ history \in [Turns -> Seq(Messages)]
  /\ adding \in [Turns -> Seq(Messages)] /\ replacing \in [Turns -> SUBSET Messages]
  /\ kept \in [Turns -> Seq(Messages)] /\ \A t \in Turns : added[t] \in 0 .. Len(adding[t])
  /\ crashes \in 0 .. MaxCrashes
  /\ said \subseteq Messages /\ reset \subseteq AllTurns /\ overlapped \in BOOLEAN
  /\ spoiled \subseteq {"reset", "compaction", "compression", "crash"}

\* A file whose metadata line is missing before its messages does not parse.
Loads == main = None \/ "meta" \in written[main] \/ "body" \notin written[main]
LoadedSummary == IF main = None THEN {} ELSE meta[main]
LoadedMsgs == IF main = None THEN <<>> ELSE body[main]

\* The messages of a turn: tools, or an answer that is cut off for its length,
\* whose calls are not run, and the notice that asks for the rest of it.
Question(t) == <<Message(t, "user", 0)>>
ToolRound(t) == <<Message(t, "call", 0), Message(t, "tool", 1), Message(t, "tool", 2)>>
CutOff(t) == <<Message(t, "unrun", 1), Message(t, "user", 1)>>
Rounds(t) == {<<>>, ToolRound(t), CutOff(t)}
Reply(t) == <<Message(t, "reply", 0)>>
\* At a limit a notice asks for a last answer, the calls in which are not run, either
\* (without calls a cut-off or last answer is kept and paired like a reply).
LastAnswer(t) == <<Message(t, "user", 2), Message(t, "unrun", 2)>>

\* The process starts without a saved session, or with one.
Init ==
  /\ cached = None
  /\ msgs = [o \in Objects |-> <<>>] /\ summary = [o \in Objects |-> {}]
  /\ tmp = None
  /\ main \in Inodes \cup {None}
  /\ meta = [i \in Inodes |-> IF i = main THEN ToSet(Question(Told) \o Reply(Told)) ELSE {}]
  /\ body = [i \in Inodes |-> IF i = main THEN Question(Stored) \o ToolRound(Stored) \o Reply(Stored) ELSE <<>>]
  /\ written = [i \in Inodes |-> IF i = main THEN Parts ELSE {}]
  /\ pc = [h \in Handlings |-> "none"] /\ obj = [h \in Handlings |-> None]
  /\ save = [h \in Handlings |-> "no"] /\ fd = [h \in Handlings |-> None]
  /\ history = [t \in Turns |-> <<>>]
  /\ adding = [t \in Turns |-> <<>>] /\ added = [t \in Turns |-> 0]
  /\ replacing = [t \in Turns |-> {}] /\ kept = [t \in Turns |-> <<>>]
  /\ crashes = 0
  /\ said = ToSet(LoadedMsgs) \cup LoadedSummary
  /\ reset = {} /\ overlapped = FALSE /\ spoiled = {}

Busy == {h \in Handlings : pc[h] \notin Between}
Goto(h, p) == pc' = [pc EXCEPT ![h] = p]
Spoil(by, if) == spoiled' = IF if THEN spoiled \cup {by} ELSE spoiled

\* What is left of the objects and the files when nothing refers to some of them.
Collect ==
  LET live == {cached} \cup Range(obj)
  IN /\ msgs' = [o \in Objects |-> IF o \in live' THEN msgs[o] ELSE <<>>]
     /\ summary' = [o \in Objects |-> IF o \in live' THEN summary[o] ELSE {}]
Unlink ==
  LET linked == {main, tmp} \cup Range(fd)
  IN /\ meta' = [i \in Inodes |-> IF i \in linked' THEN meta[i] ELSE {}]
     /\ body' = [i \in Inodes |-> IF i \in linked' THEN body[i] ELSE <<>>]
     /\ written' = [i \in Inodes |-> IF i \in linked' THEN written[i] ELSE {}]

Return(h) ==
  /\ Goto(h, "returned") /\ obj' = [obj EXCEPT ![h] = None]
  /\ IF h \in Turns
     THEN /\ said' = said \cup ToSet(adding[h])
          /\ history' = [history EXCEPT ![h] = <<>>]
          /\ adding' = [adding EXCEPT ![h] = <<>>] /\ added' = [added EXCEPT ![h] = 0]
          /\ replacing' = [replacing EXCEPT ![h] = {}] /\ kept' = [kept EXCEPT ![h] = <<>>]
     ELSE UNCHANGED <<said, locals>>

-----------------------------------------------------------------------------
(* GetHistorySafe: the last MaxHistory messages, without a tool result     *)
(* whose call is cut off.                                                  *)

IsCallOf(m, result) == m.role = "call" /\ m.turn = result.turn
IsResultOf(m, call) == m.role = "tool" /\ IsCallOf(call, m)

SafeStartOnce(s) ==  \* mutant: a tool result at the start is taken to follow its call directly
  LET n == Len(s) - MaxHistory + 1 IN IF s[n].role = "tool" THEN n - 1 ELSE n

\* Where the history begins: a tool result there takes in its call and what is
\* between them, a call without all its results the message before it.
SafeStart(s) ==
  LET CallBefore(i) == {j \in 1 .. i - 1 : IsCallOf(s[j], s[i])}
      Answered(i) == \A n \in Calls : \E k \in i + 1 .. Len(s) : IsResultOf(s[k], s[i]) /\ s[k].n = n
      start[i \in 1 .. Len(s)] ==
        IF i = 1 THEN 1
        ELSE IF s[i].role = "tool"
             THEN IF CallBefore(i) = {} THEN i + 1 ELSE start[Max(CallBefore(i))]
             ELSE IF s[i].role \in {"call", "unrun"} /\ ~Answered(i) THEN start[i - 1] ELSE i
  IN start[Len(s) - MaxHistory + 1]

GetHistorySafe(s) ==
  IF MaxHistory >= Len(s) THEN s ELSE SubSeq(s, SafeStart(s), Len(s))

-----------------------------------------------------------------------------
(* The run of the model on its own copy of the messages.                   *)

Users(s) == {i \in 1 .. Len(s) : s[i].role = "user"}

\* findSafeBoundaryFor: the number of messages to cut off, about target of them.
SafeBoundary(s, target) ==
  LET before == {i \in Users(s) : i - 1 <= target}
      after == Users(s) \ before
  IN IF target <= 0 THEN 0
     ELSE IF target >= Len(s) THEN Len(s)
     ELSE IF Users(s) = {} THEN target
     ELSE IF before # {} /\ Max(before) > 1 THEN Max(before) - 1
     ELSE IF after # {} THEN Min(after) - 1
     ELSE 0

\* forceCompression: what is left of a context that is too long.
Compressed(s) ==
  LET before(u) == {v \in Users(s) : v < u}
      half == Cardinality(Users(s)) \div 2
      cut == IF half > 0 THEN Min({u \in Users(s) : Cardinality(before(u)) >= half}) - 1
             ELSE SafeBoundary(s, Len(s) \div 2)
  IN IF cut <= 0 THEN <<s[Max(Users(s))]>> ELSE SubSeq(s, cut + 1, Len(s))

\* How a run that has the messages q ends: with a reply, with a last answer
\* after rounds, or where it is interrupted when there is an answer at all.
Endings(t, q, rounds) ==
  {Reply(t)} \cup (IF rounds THEN {LastAnswer(t)} ELSE {})
             \cup (IF \E m \in ToSet(q) : m.role \in Assistant THEN {<<>>} ELSE {})

\* The messages and the summary at the end of a run, and whether the context
\* was compressed before its last answer.
Results(t, s, old) ==
  LET Asked(a) == s \o Question(t) \o a
      Plain(a) == {[final |-> Asked(a) \o e, summary |-> old, squeezed |-> FALSE] :
                     e \in Endings(t, Asked(a), a # <<>>)}
      Squeezed(q) ==
        LET c == Compressed(q)
        IN {[final |-> c \o e, summary |-> old \cup ToSet(SubSeq(q, 1, Len(q) - Len(c))),
             squeezed |-> TRUE] : e \in Endings(t, c, TRUE)}
      long == {q \in {Asked(a) : a \in Rounds(t)} : Len(q) > 2}
  IN (UNION {Plain(a) : a \in Rounds(t)}) \cup (UNION {Squeezed(q) : q \in long})

\* updateSession takes the messages after the history for the new ones.
NewMessages(final, historyLen) ==
  IF Len(final) > historyLen THEN SubSeq(final, historyLen + 1, Len(final)) ELSE final

-----------------------------------------------------------------------------
(* Save holds the read lock of the session: changes of it wait.            *)

Unlocked(o) == \A h \in Handlings : fd[h] # None => obj[h] # o

MustSave(h) == save[h] = "no" /\ pc[h] \in {"summarized", "added", "compacted", "created"}

\* os.Create truncates the file that is there.
SaveCreate(h) ==
  /\ MustSave(h)
  /\ \E i \in IF tmp # None THEN {tmp} ELSE Inodes \ ({main} \cup Range(fd)) :
       /\ tmp' = i /\ fd' = [fd EXCEPT ![h] = i]
       /\ meta' = [meta EXCEPT ![i] = {}] /\ body' = [body EXCEPT ![i] = <<>>]
       /\ written' = [written EXCEPT ![i] = {}]
  /\ save' = [save EXCEPT ![h] = "meta"]
  /\ UNCHANGED <<objects, main, pc, obj, locals, crashes, ghosts>>

\* The encoder writes through, a line at a time; the lines of the messages are one step.
SaveMeta(h) ==
  /\ save[h] = "meta" /\ save' = [save EXCEPT ![h] = "body"]
  /\ meta' = [meta EXCEPT ![fd[h]] = summary[obj[h]]]
  /\ written' = [written EXCEPT ![fd[h]] = @ \cup {"meta"}]
  /\ UNCHANGED <<objects, main, tmp, body, pc, obj, fd, locals, crashes, ghosts>>

SaveBody(h) ==
  /\ save[h] = "body" /\ save' = [save EXCEPT ![h] = "rename"]
  /\ body' = [body EXCEPT ![fd[h]] = msgs[obj[h]]]
  /\ written' = [written EXCEPT ![fd[h]] = @ \cup {"body"}]
  /\ UNCHANGED <<objects, main, tmp, meta, pc, obj, fd, locals, crashes, ghosts>>

\* What follows a Save: the messages, the end of the handling, or a look at the
\* size of the session.
AfterSave(h) ==
  IF pc[h] \in {"summarized", "added"}
  THEN /\ Goto(h, IF pc[h] = "added" THEN "saved" ELSE "adding")
       /\ UNCHANGED <<obj, locals, said>>
  ELSE Return(h)

SaveLink(h) ==  \* mutant: the temporary file keeps its name
  /\ save[h] = "rename"
  /\ main' = (IF tmp = None THEN main ELSE tmp) /\ UNCHANGED tmp
  /\ save' = [save EXCEPT ![h] = "no"] /\ fd' = [fd EXCEPT ![h] = None]
  /\ AfterSave(h)
  /\ UNCHANGED <<cached, crashes, reset, overlapped, spoiled>>
  /\ Collect /\ Unlink

\* It renames whatever has the name; the error of a missing file is logged.
SaveRename(h) ==
  /\ save[h] = "rename"
  /\ main' = (IF tmp = None THEN main ELSE tmp) /\ tmp' = None
  /\ save' = [save EXCEPT ![h] = "no"] /\ fd' = [fd EXCEPT ![h] = None]
  /\ AfterSave(h)
  /\ UNCHANGED <<cached, crashes, reset, overlapped, spoiled>>
  /\ Collect /\ Unlink

-----------------------------------------------------------------------------
(* Manager.GetOrCreate and Delete, under the mutex of the manager.         *)

GetOrCreate(h, to) ==
  IF cached # None
  THEN obj' = [obj EXCEPT ![h] = cached] /\ Goto(h, to) /\ UNCHANGED <<objects, said, locals>>
  ELSE IF Loads
  THEN /\ \E o \in Objects \ Range(obj) :
            /\ cached' = o /\ obj' = [obj EXCEPT ![h] = o]
            /\ msgs' = [msgs EXCEPT ![o] = LoadedMsgs]
            /\ summary' = [summary EXCEPT ![o] = LoadedSummary]
       /\ Goto(h, to) /\ UNCHANGED <<said, locals>>
  ELSE Return(h) /\ UNCHANGED objects

\* /new: the session goes from the cache and the disk, whoever works on it.
Delete(n) ==
  /\ pc[n] = "none" /\ Cardinality(Busy) < Workers
  /\ cached' = None /\ main' = None
  /\ Goto(n, "deleted")
  /\ said' = {} /\ reset' = AllTurns \ {t \in Turns : pc[t] \notin {"returned", "killed"}}
  /\ overlapped' = (overlapped \/ Busy # {}) /\ Spoil("reset", Busy # {})
  /\ UNCHANGED <<tmp, obj, save, fd, locals, crashes>>
  /\ Collect /\ Unlink

NewSession(n) ==
  /\ pc[n] = "deleted" /\ GetOrCreate(n, "created")
  /\ UNCHANGED <<files, save, fd, crashes, reset, overlapped, spoiled>>

Reset(n) == Delete(n) \/ NewSession(n)

-----------------------------------------------------------------------------
(* A turn.                                                                 *)

Open(t) ==
  /\ pc[t] = "none" /\ Cardinality(Busy) < Workers
  /\ GetOrCreate(t, "open")
  /\ overlapped' = (overlapped \/ Busy # {})
  /\ Spoil("compaction", \E u \in Turns : pc[u] \in {"cut", "summary", "replace"})
  /\ UNCHANGED <<files, save, fd, crashes, reset>>

GetSummary(t) ==
  /\ pc[t] = "open" /\ Goto(t, "told")
  /\ replacing' = [replacing EXCEPT ![t] = summary[obj[t]]]
  /\ UNCHANGED <<objects, files, obj, save, fd, history, adding, added, kept, crashes, ghosts>>

\* The history is read and the model runs on it, which no other handling sees.
Run(t) ==
  /\ pc[t] = "told"
  /\ LET s == GetHistorySafe(msgs[obj[t]])
     IN \E r \in Results(t, s, replacing[t]) :
          /\ history' = [history EXCEPT ![t] = s]
          /\ adding' = [adding EXCEPT ![t] = NewMessages(r.final, Len(s))]
          /\ replacing' = [replacing EXCEPT ![t] = r.summary]
          /\ Goto(t, IF r.summary = {} THEN "adding" ELSE "answered")
          /\ Spoil("compression", r.squeezed)
  /\ UNCHANGED <<objects, files, obj, save, fd, added, kept, crashes, said, reset, overlapped>>

\* A summary, be it the one it was told, is set and saved before the messages.
SetSummary(t) ==
  /\ pc[t] = "answered" /\ Unlocked(obj[t]) /\ Goto(t, "summarized")
  /\ summary' = [summary EXCEPT ![obj[t]] = replacing[t]]
  /\ UNCHANGED <<cached, msgs, files, obj, save, fd, locals, crashes, ghosts>>

AddMessage(t) ==
  /\ pc[t] = "adding" /\ Unlocked(obj[t])
  /\ msgs' = [msgs EXCEPT ![obj[t]] = Append(@, adding[t][added[t] + 1])]
  /\ added' = [added EXCEPT ![t] = @ + 1]
  /\ Goto(t, IF added'[t] = Len(adding[t]) THEN "added" ELSE "adding")
  /\ UNCHANGED <<cached, summary, files, obj, save, fd, history, adding, replacing, kept, crashes, ghosts>>

-----------------------------------------------------------------------------
(* maybeCompactSession, after the session is saved.                        *)

\* GetHistory: between MaxHistory and twice as many messages it depends on
\* their size whether there is a compaction.
CompactHistory(t) ==
  /\ pc[t] = "saved"
  /\ LET s == msgs[obj[t]]
         cut == SafeBoundary(s, Len(s) - MaxHistory)
     IN \/ /\ Len(s) <= 2 * MaxHistory \/ cut = 0
           /\ Return(t)
           /\ UNCHANGED <<cached, files, save, fd, crashes, reset, overlapped, spoiled>>
           /\ Collect
        \/ /\ Len(s) > MaxHistory /\ cut > 0
           /\ kept' = [kept EXCEPT ![t] = SubSeq(s, cut + 1, Len(s))]
           /\ replacing' = [replacing EXCEPT ![t] = ToSet(SubSeq(s, 1, cut))]
           /\ Goto(t, "cut") /\ Spoil("compaction", Busy # {t})
           /\ UNCHANGED <<objects, files, obj, save, fd, history, adding, added,
                          crashes, said, reset, overlapped>>

CompactSummaryAnew(t) ==  \* mutant: the summary tells of the dropped messages only
  /\ pc[t] = "cut" /\ Goto(t, "summary")
  /\ UNCHANGED <<objects, files, obj, save, fd, locals, crashes, ghosts>>

CompactSummary(t) ==
  /\ pc[t] = "cut" /\ Goto(t, "summary")
  /\ replacing' = [replacing EXCEPT ![t] = @ \cup summary[obj[t]]]
  /\ UNCHANGED <<objects, files, obj, save, fd, history, adding, added, kept, crashes, ghosts>>

CompactSet(t) ==
  /\ pc[t] = "summary" /\ Unlocked(obj[t]) /\ Goto(t, "replace")
  /\ summary' = [summary EXCEPT ![obj[t]] = replacing[t]]
  /\ UNCHANGED <<cached, msgs, files, obj, save, fd, locals, crashes, ghosts>>

ReplaceHistory(t) ==
  /\ pc[t] = "replace" /\ Unlocked(obj[t]) /\ Goto(t, "compacted")
  /\ msgs' = [msgs EXCEPT ![obj[t]] = kept[t]]
  /\ UNCHANGED <<cached, summary, files, obj, save, fd, locals, crashes, ghosts>>

Turn(t) ==
  \/ Open(t) \/ GetSummary(t) \/ Run(t) \/ SetSummary(t) \/ AddMessage(t)
  \/ CompactHistory(t) \/ CompactSummary(t) \/ CompactSet(t) \/ ReplaceHistory(t)

-----------------------------------------------------------------------------
\* The process is killed: the files stay as they are.
Crash ==
  /\ crashes < MaxCrashes /\ crashes' = crashes + 1
  /\ cached' = None
  /\ pc' = [h \in Handlings |-> IF h \in Busy THEN "killed" ELSE pc[h]]
  /\ obj' = [h \in Handlings |-> None]
  /\ save' = [h \in Handlings |-> "no"] /\ fd' = [h \in Handlings |-> None]
  /\ history' = [t \in Turns |-> <<>>]
  /\ adding' = [t \in Turns |-> <<>>] /\ added' = [t \in Turns |-> 0]
  /\ replacing' = [t \in Turns |-> {}] /\ kept' = [t \in Turns |-> <<>>]
  /\ Spoil("crash", overlapped /\ main # None /\ written[main] # Parts)
  /\ UNCHANGED <<main, tmp, said, reset, overlapped>>
  /\ Collect /\ Unlink

Next ==
  \/ \E t \in Turns : Turn(t)
  \/ \E n \in Resets : Reset(n)
  \/ \E h \in Handlings : SaveCreate(h) \/ SaveMeta(h) \/ SaveBody(h) \/ SaveRename(h)
  \/ Crash

Spec == Init /\ [][Next]_vars
\* Behaviours are followed until something spoils the session, see KeptOnce, with
\* one turn that is cut off, limited or interrupted, and then with one kill.
Unspoiled == spoiled = {}
Odd(t) ==
  LET its == {m \in said \cup ToSet(adding[t]) : m.turn = t}
  IN \/ \E m \in its : m.role = "unrun"
     \/ its # {} /\ \A m \in its : m.role # "reply"
Bounded ==
  LET odd == Cardinality({t \in Turns : Odd(t)})
  IN Unspoiled /\ odd <= 1 /\ odd + crashes <= 2
Symmetry == Permutations(Turns) \cup Permutations(Objects) \cup Permutations(Inodes)

-----------------------------------------------------------------------------
(* Properties.                                                             *)

\* The session as the next turn would find it: in the cache or on the disk.
Live == IF cached = None THEN [msgs |-> LoadedMsgs, summary |-> LoadedSummary]
        ELSE [msgs |-> msgs[cached], summary |-> summary[cached]]

\* What a turn that returned has added is in the session or its summary, once,
\* also after the process was killed at any step, and nothing from before /new
\* is.  What may break it is named in spoiled: /new deletes the session beside
\* another handling, or there is one between what a compaction reads and the
\* history it puts in place; the context of a
\* run was compressed, so that the messages after the old history are not the
\* new ones; the process is killed while a Save writes to the file that another
\* one has already renamed.
KeptOnce ==
  spoiled = {} =>
    /\ said \subseteq ToSet(Live.msgs) \cup Live.summary
    /\ IsInjective(Live.msgs)
    /\ \A m \in ToSet(Live.msgs) \cup Live.summary : m.turn \notin reset

Paired(s) ==
  \A i \in 1 .. Len(s) :
    /\ s[i].role = "tool" => \E j \in 1 .. i - 1 : IsCallOf(s[j], s[i])
    /\ s[i].role = "call" => \A n \in Calls : \E k \in i + 1 .. Len(s) : IsResultOf(s[k], s[i]) /\ s[k].n = n

\* The history the model is given has each tool result after its call and each
\* call whose tools were run before all its results, whatever was left out,
\* compacted or lost in a kill, as long as turns were handled one at a time and no
\* context was compressed.  Nothing gives results to the calls that were not run,
\* of an answer cut off for its length or of the last one at a limit: they are in
\* the history without.
HistoryPaired ==
  ~overlapped /\ "compression" \notin spoiled => \A t \in Turns : Paired(history[t])
=============================================================================
