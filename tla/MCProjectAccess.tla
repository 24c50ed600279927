-------------------------- MODULE MCProjectAccess --------------------------
(* Small instances of ProjectAccess for TLC. *)
EXTENDS ProjectAccess, TLC

CONSTANTS ann, bob

Bare == [ message |-> 1, level |-> "error", column |-> Null, environment |-> Null,
          context |-> Null, sdk |-> Null, user |-> Null, contextUser |-> Null,
          timestamp |-> Null, trace_id |-> Null, traceId |-> Null ]

\* Entries at, below and above every cap of the code.
Entries ==
  { Null, Bare,
    [Bare EXCEPT !.message = Null],
    [Bare EXCEPT !.level = "fatal", !.message = 16384, !.column = 255, !.trace_id = 64],
    [Bare EXCEPT !.message = 16385, !.column = 256, !.environment = 300, !.traceId = 65],
    [Bare EXCEPT !.timestamp = 256, !.context = 98305, !.sdk = 4097, !.contextUser = 2] }

\* Batches of up to two entries, of three with room for two, and bare entries.
SmallBody ==
  { [logs |-> batch, entry |-> Null] :
      batch \in UNION { [1 .. n -> Entries] : n \in 0 .. 2 }
                \cup [1 .. 3 -> { e \in Entries : e = Null \/ e.message \in {Null, 16385} }] }
  \cup { [logs |-> Null, entry |-> e] : e \in Entries }
=============================================================================
