------------------------------- MODULE DuckDb -------------------------------
(* One call of runDuckDb, app/Archive/duckdb.ts: a child process that is     *)
(* given a script, prints a JSON array for every result set and exits, a     *)
(* timer that asks it to stop, a second that makes it, and the scanner that  *)
(* takes the last array out of what was printed.  Calls share nothing, so    *)
(* one after another is all there is.  Text is a sequence of the characters  *)
(* the scanner tells apart.                                                  *)
EXTENDS Naturals, Sequences, SequencesExt

CONSTANTS
  Char,      \* the characters of a text, the punctuation of JSON among them
  Script     \* scripts, each the result sets its statements print: a set is
             \* a sequence of messages, a message one of characters

ASSUME CallAssumption ==
  /\ {"[", "]", "quote", "slash", "newline"} \subseteq Char
  /\ Script \subseteq Seq(Seq(Seq(Char)))

Whole == 2           \* the effect of a script that ran to its end

VARIABLES
  phase,     \* the call: "idle", "writing", "waiting" or "answered"
  script,    \* the script of the current call
  child,     \* the process: "none", "running" or "exited"
  printed,   \* how many characters it has printed
  code,      \* its exit code
  effect,    \* what it has done to the store: nothing, a part, the whole
  timer,     \* the query's timer is set
  hard,      \* the timer of the second signal is set
  signal,    \* the last signal sent: "none", "term" or "kill"
  timedOut,
  result     \* what the call answered

childVars == <<child, printed, code, effect>>
timerVars == <<timer, hard, signal, timedOut>>
callVars == <<phase, script, childVars, timerVars, result>>

Failure == [ok |-> FALSE, rows |-> <<>>]

CallInit ==
  /\ phase = "idle" /\ script \in Script
  /\ child = "none" /\ printed = 0 /\ code = 0 /\ effect = 0
  /\ timer = FALSE /\ hard = FALSE /\ signal = "none" /\ timedOut = FALSE
  /\ result = Failure

-----------------------------------------------------------------------------
(* What is printed, and the scanner that reads it back.                      *)

\* JSON escapes a quote and a backslash with a backslash; brackets stay.
Escaped(char) == IF char \in {"quote", "slash"} THEN <<"slash", char>> ELSE <<char>>
Quoted(message) ==
  <<"quote">> \o FlattenSeq([i \in DOMAIN message |-> Escaped(message[i])]) \o <<"quote">>

Printed(rows) == <<"[">> \o FlattenSeq([i \in DOMAIN rows |-> Quoted(rows[i])]) \o <<"]">>
Text(sets) == FlattenSeq([i \in DOMAIN sets |-> Printed(sets[i]) \o <<"newline">>])

Scanning == [depth |-> 0, start |-> 0, inString |-> FALSE, escaped |-> FALSE, sets |-> <<>>]

\* A slice that JSON.parse refuses is skipped.
WellFormed(slice) == \E sc \in Script : \E i \in DOMAIN sc : Printed(sc[i]) = slice
RowsIn(slice) == CHOOSE rows \in UNION { Range(sc) : sc \in Script } : Printed(rows) = slice
Parsed(slice) == IF WellFormed(slice) THEN <<RowsIn(slice)>> ELSE << >>

\* The body of parseResultSets' loop: strings and their escapes are tracked.
Scan(text, s, i) ==
  CASE s.inString /\ s.escaped -> [s EXCEPT !.escaped = FALSE]
    [] s.inString /\ ~s.escaped ->
         [s EXCEPT !.escaped = text[i] = "slash", !.inString = text[i] # "quote"]
    [] ~s.inString /\ text[i] = "quote" -> [s EXCEPT !.inString = TRUE]
    [] ~s.inString /\ text[i] = "[" ->
         [s EXCEPT !.depth = @ + 1, !.start = IF s.depth = 0 THEN i ELSE @]
    [] ~s.inString /\ text[i] = "]" ->
         [s EXCEPT !.depth = @ - 1,
                   !.start = IF s.depth = 1 THEN 0 ELSE @,
                   !.sets = IF s.depth = 1 /\ s.start > 0
                            THEN @ \o Parsed(SubSeq(text, s.start, i)) ELSE @]
    [] OTHER -> s

ParseResultSets(text) ==
  LET after[i \in 0 .. Len(text)] ==
        IF i = 0 THEN Scanning ELSE Scan(text, after[i - 1], i)
  IN  after[Len(text)].sets

\* What is read of a script that was answered in full, worked out once.
Sets == [sc \in Script |-> ParseResultSets(Text(sc))]

-----------------------------------------------------------------------------
(* The child.                                                                *)

\* A statement of the script takes effect.
Works ==
  /\ child = "running" /\ effect < Whole
  /\ effect' = effect + 1
  /\ UNCHANGED <<phase, script, child, printed, code, timerVars, result>>

\* It runs to its end, though it may have been asked to stop.
Completes ==
  /\ child = "running" /\ effect = Whole /\ signal # "kill"
  /\ child' = "exited" /\ code' = 0 /\ printed' = Len(Text(script))
  /\ UNCHANGED <<phase, script, effect, timerVars, result>>

\* A statement fails, or the process dies by a signal or for want of memory,
\* wherever it had got to; one that is asked to stop may just as well not.
Dies ==
  /\ child = "running"
  /\ child' = "exited" /\ code' = 1
  /\ printed' \in 0 .. Len(Text(script))
  /\ UNCHANGED <<phase, script, effect, timerVars, result>>

-----------------------------------------------------------------------------
(* runDuckDb.                                                                *)

Spawn ==
  /\ phase \in {"idle", "answered"}
  /\ phase' = "writing"
  /\ script' \in Script
  /\ child' = "running" /\ printed' = 0 /\ code' = 0 /\ effect' = 0
  /\ timer' = FALSE /\ hard' = FALSE /\ signal' = "none" /\ timedOut' = FALSE
  /\ result' = Failure

\* No such binary: the exception is the caller's.
SpawnThrows ==
  /\ phase \in {"idle", "answered"}
  /\ phase' = "answered"
  /\ child' = "none" /\ printed' = 0 /\ code' = 0 /\ effect' = 0
  /\ timer' = FALSE /\ hard' = FALSE /\ signal' = "none" /\ timedOut' = FALSE
  /\ result' = Failure /\ UNCHANGED script

\* The script is on the child's stdin; only now does the time begin to run.
StdinEnds ==
  /\ phase = "writing"
  /\ phase' = "waiting" /\ timer' = TRUE
  /\ UNCHANGED <<script, childVars, hard, signal, timedOut, result>>

\* Mutant: the polite signal is the only one.
TimerFiresOnce ==
  /\ timer
  /\ timer' = FALSE /\ timedOut' = TRUE
  /\ signal' = "term"
  /\ UNCHANGED <<phase, script, childVars, hard, result>>

TimerFires ==
  /\ timer
  /\ timer' = FALSE /\ timedOut' = TRUE
  /\ signal' = "term" /\ hard' = TRUE
  /\ UNCHANGED <<phase, script, childVars, result>>

\* Nothing clears the second timer; a process that is gone takes no signal.
HardFires ==
  /\ hard
  /\ hard' = FALSE /\ signal' = "kill"
  /\ UNCHANGED <<phase, script, childVars, timer, timedOut, result>>

\* The answer made of what the three promises gave; with an exit code of 0
\* everything has been printed.
Answer ==
  IF timedOut \/ code # 0 THEN Failure
  ELSE IF printed = 0 THEN [ok |-> TRUE, rows |-> <<>>]
  ELSE IF Sets[script] = <<>> THEN Failure
  ELSE [ok |-> TRUE, rows |-> Last(Sets[script])]

\* Mutant: a call whose time is up is answered without waiting for the exit.
Settled == child = "exited" \/ timedOut

\* stdout, stderr and the exit code have all come.
AllCame == child = "exited"

Returns ==
  /\ phase = "waiting" /\ AllCame
  /\ phase' = "answered" /\ timer' = FALSE
  /\ result' = Answer
  /\ UNCHANGED <<script, childVars, hard, signal, timedOut>>

CallNext ==
  \/ Works \/ Completes \/ Dies
  \/ Spawn \/ SpawnThrows \/ StdinEnds \/ TimerFires \/ HardFires \/ Returns

\* Timers fire, the runtime goes on with what has come, and SIGKILL works.  A
\* child that has not had it may hang for ever, one that does not read its
\* script too: that wait is before the timer, and nothing ends it.
CallFairness ==
  /\ WF_callVars(TimerFires) /\ WF_callVars(HardFires)
  /\ WF_callVars(Returns) /\ WF_callVars(signal = "kill" /\ Dies)

CallSpec == CallInit /\ [][CallNext]_callVars /\ CallFairness

-----------------------------------------------------------------------------
(* Properties.                                                               *)

\* duckdb.ts:8-16 and 170-178.  A call is what its callers think it is, for any
\* messages, signals and failures: answered ok only when the script ran to its
\* end, with the last set of the script and no other, and without effect once
\* answered, so a COPY that is tried again does not meet the first one.
Stage == IF phase \in {"writing", "waiting"} THEN "open" ELSE phase

AC == INSTANCE ArchiveCall WITH stage <- Stage, of <- script, answer <- result
CallsArePlain == AC!Spec

\* duckdb.ts:201-206, "would otherwise hold the scheduler for the whole job
\* timeout": once it has its script a call is answered, whatever the child does
\* with its signal.
CallReturns == phase = "waiting" ~> phase = "answered"

=============================================================================
