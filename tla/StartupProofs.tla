---------------------------- MODULE StartupProofs ----------------------------
(***************************************************************************)
(* Proofs about Startup, for any number of programs, ports, columns and    *)
(* mishaps.                                                                *)
(*                                                                         *)
(* A server has in the database what lies behind its place in init_db, and *)
(* columns are never removed, so that it finds the schema complete when it *)
(* comes to the end, whoever added the columns.  What a server was left is *)
(* the runs of servers that have ended, and these do not come back, so     *)
(* that nothing it has repaired is called running again.                   *)
(***************************************************************************)
EXTENDS Startup, TLAPS

Ready == {"repairing", "binding", "serving"}

SchemaKnown ==
  \A p \in Programs :
    /\ server[p] \in {"none", "creating"} => at[p] = 1
    /\ server[p] = "adding" => at[p] \in Columns
    /\ server[p] \in {"opening", "adding"} =>
         \A c \in Columns : c < at[p] => c \in columns
    /\ server[p] \in Ready => columns = Columns /\ version

RunsKnown ==
  /\ \A q \in running : server[q] \in {"serving", "ended"}
  /\ \A p \in Programs : \A q \in missed[p] : server[q] = "ended"
  /\ \A p \in Programs :
       server[p] \in {"binding", "serving"} => missed[p] \cap running = {}

LaunchersKnown ==
  \A p \in Programs :
    program[p] \in {"off", "choosing", "chosen"} => server[p] = "none"

IInv ==
  /\ TypeOK /\ VersionIsTrue /\ SchemaKnown
  /\ RunsKnown /\ LaunchersKnown /\ NoServerLeft

-----------------------------------------------------------------------------
\* The database a start may meet, with no program running, is in order.
LEMMA InitIInv == Init => IInv
<1> SUFFICES ASSUME Init PROVE IInv
  OBVIOUS
<1> USE ConstantsAssumption DEF ConstantsAssumption
<1>1. columns \subseteq Columns
  BY DEF Init
<1>2. TypeOK
  BY <1>1 DEF Init, TypeOK, Columns
<1>3. VersionIsTrue /\ SchemaKnown
  BY DEF Init, VersionIsTrue, SchemaKnown, Ready
<1>4. RunsKnown /\ LaunchersKnown /\ NoServerLeft
  BY DEF Init, RunsKnown, LaunchersKnown, NoServerLeft
<1> QED
  BY <1>2, <1>3, <1>4 DEF IInv

\* Steps of a launcher alone: where it is changes, and where the port is.
LEMMA LauncherMoves ==
  ASSUME IInv, NEW p \in Programs,
         \/ Start(p) \/ ChoosePort(p) \/ Answered(p) \/ GiveUp(p) \/ End(p)
         \/ Close(p) \/ TooSlow(p) \/ LauncherDies(p)
  PROVE  IInv'
<1> USE ConstantsAssumption DEF ConstantsAssumption
<1>1. UNCHANGED <<server, at, absent, columns, version, running, missed>>
  BY DEF Start, ChoosePort, Answered, GiveUp, End, Close, TooSlow, LauncherDies
<1>2. TypeOK'
  BY DEF IInv, TypeOK, Start, ChoosePort, Answered, GiveUp, End, Close, TooSlow,
         LauncherDies, Goes, Mishap
<1>3. VersionIsTrue' /\ SchemaKnown' /\ RunsKnown'
  BY <1>1 DEF IInv, VersionIsTrue, SchemaKnown, RunsKnown
<1>4. LaunchersKnown' /\ NoServerLeft'
  BY <1>1 DEF IInv, TypeOK, LaunchersKnown, NoServerLeft, Alive, Migrating,
              Start, ChoosePort, Answered, GiveUp, End, Close, TooSlow, LauncherDies, Goes
<1> QED
  BY <1>2, <1>3, <1>4 DEF IInv

\* A server process is started: the runs it is left are those of servers that
\* have ended, for a run belongs to one that serves or has ended.
LEMMA LaunchMoves ==
  ASSUME IInv, NEW p \in Programs, Launch(p)
  PROVE  IInv'
<1> USE ConstantsAssumption DEF ConstantsAssumption
<1>1. server[p] = "none"
  BY DEF IInv, LaunchersKnown, Launch
<1>2. Abandoned \subseteq running /\ \A q \in Abandoned : server[q] = "ended"
  BY DEF IInv, RunsKnown, Abandoned, Alive
<1>3. TypeOK'
  BY <1>2 DEF IInv, TypeOK, Launch, Goes, Alive, Migrating
<1>4. VersionIsTrue' /\ SchemaKnown'
  BY <1>1 DEF IInv, TypeOK, VersionIsTrue, SchemaKnown, Launch, Ready
<1>5. RunsKnown'
  BY <1>1, <1>2 DEF IInv, TypeOK, RunsKnown, Launch
<1>6. LaunchersKnown' /\ NoServerLeft'
  BY DEF IInv, TypeOK, LaunchersKnown, NoServerLeft, Launch, Goes
<1> QED
  BY <1>3, <1>4, <1>5, <1>6 DEF IInv

\* A server ends, in whatever way: its place and its left runs are forgotten.
LEMMA EndMoves ==
  ASSUME IInv, NEW p \in Programs, server[p] \in Alive, ServerEnds(p),
         UNCHANGED <<program, port, absent, columns, version, running>>,
         mishaps' \in 0..MaxMishaps
  PROVE  IInv'
<1> USE ConstantsAssumption DEF ConstantsAssumption
<1>1. TypeOK'
  BY DEF IInv, TypeOK, ServerEnds
<1>2. VersionIsTrue' /\ SchemaKnown'
  BY DEF IInv, TypeOK, VersionIsTrue, SchemaKnown, ServerEnds, Ready
<1>3. RunsKnown'
  BY DEF IInv, TypeOK, RunsKnown, ServerEnds
<1>4. LaunchersKnown' /\ NoServerLeft'
  BY DEF IInv, TypeOK, LaunchersKnown, NoServerLeft, ServerEnds, Alive, Migrating
<1> QED
  BY <1>1, <1>2, <1>3, <1>4 DEF IInv

-----------------------------------------------------------------------------
\* init_db: a place passed is a column had, and at the end that is all of them.
LEMMA SchemaMoves ==
  ASSUME IInv, NEW p \in Programs,
         CreateTables(p) \/ ReadColumns(p) \/ AddColumn(p) \/ RecordVersion(p)
  PROVE  IInv'
<1> USE ConstantsAssumption DEF ConstantsAssumption
<1>1. CASE CreateTables(p)
  <2>1. TypeOK'
    BY <1>1 DEF IInv, TypeOK, CreateTables, Step, Alive, Migrating, Columns
  <2>2. VersionIsTrue' /\ SchemaKnown'
    <3>1. columns \subseteq columns' /\ columns' \subseteq Columns
      BY <1>1 DEF IInv, TypeOK, CreateTables
    <3>2. \A c \in Columns : ~(c < 1)
      BY DEF Columns
    <3>3. at' = at /\ version' = version /\ columns' \in SUBSET Columns
      BY <1>1, <3>1 DEF CreateTables
    <3>4. (columns = Columns) => columns' = Columns
      BY <3>1
    <3>5. server'[p] = "opening" /\ at[p] = 1
      BY <1>1 DEF IInv, TypeOK, SchemaKnown, CreateTables, Step
    <3>6. \A q \in Programs : q # p => server'[q] = server[q]
      BY <1>1 DEF IInv, TypeOK, CreateTables, Step
    <3> QED
      BY <3>1, <3>2, <3>3, <3>4, <3>5, <3>6 DEF IInv, VersionIsTrue, SchemaKnown, Ready
  <2>3. RunsKnown'
    BY <1>1 DEF IInv, TypeOK, RunsKnown, CreateTables, Step
  <2>4. LaunchersKnown' /\ NoServerLeft'
    BY <1>1 DEF IInv, TypeOK, LaunchersKnown, NoServerLeft, CreateTables, Step, Alive,
                Migrating
  <2> QED
    BY <2>1, <2>2, <2>3, <2>4 DEF IInv
<1>2. CASE ReadColumns(p)
  <2>1. TypeOK'
    BY <1>2 DEF IInv, TypeOK, ReadColumns, Alive, Migrating, Columns
  <2>2. VersionIsTrue' /\ SchemaKnown'
    BY <1>2 DEF IInv, TypeOK, VersionIsTrue, SchemaKnown, ReadColumns, Ready, Columns
  <2>3. RunsKnown'
    BY <1>2 DEF IInv, TypeOK, RunsKnown, ReadColumns
  <2>4. LaunchersKnown' /\ NoServerLeft'
    BY <1>2 DEF IInv, TypeOK, LaunchersKnown, NoServerLeft, ReadColumns, Alive, Migrating
  <2> QED
    BY <2>1, <2>2, <2>3, <2>4 DEF IInv
<1>3. CASE AddColumn(p)
  <2>1. CASE at[p] \in columns
    <3>1. server[p] \in Alive
      BY <1>3 DEF AddColumn, Alive, Migrating
    <3> QED
      BY <1>3, <2>1, <3>1, EndMoves DEF AddColumn, IInv, TypeOK
  <2>2. CASE at[p] \notin columns
    <3>1. at[p] \in Columns
      BY <1>3 DEF IInv, SchemaKnown, AddColumn
    <3>6. /\ columns' = columns \cup {at[p]} /\ columns' \subseteq Columns
          /\ columns # Columns
      BY <1>3, <2>2, <3>1 DEF IInv, TypeOK, AddColumn
    <3>7. /\ at' = [at EXCEPT ![p] = at[p] + 1] /\ at'[p] = at[p] + 1
          /\ at[p] + 1 \in 1..(NColumns + 1)
          /\ \A c \in Columns : c < at[p] + 1 => c < at[p] \/ c = at[p]
      BY <1>3, <2>2, <3>1 DEF IInv, TypeOK, AddColumn, Columns
    <3>8. \A q \in Programs : q # p => server'[q] = server[q] /\ at'[q] = at[q]
      BY <1>3, <2>2 DEF IInv, TypeOK, AddColumn
    <3>9. server'[p] = "opening" /\ version' = version
      BY <1>3, <2>2 DEF IInv, TypeOK, AddColumn
    <3>2. TypeOK'
      BY <1>3, <2>2, <3>6, <3>7 DEF IInv, TypeOK, AddColumn, Alive, Migrating
    <3>3. VersionIsTrue' /\ SchemaKnown'
      <4>1. VersionIsTrue' /\ ~version
        BY <3>6, <3>9 DEF IInv, VersionIsTrue
      <4>2. \A q \in Programs : server[q] \notin Ready
        BY <3>6 DEF IInv, SchemaKnown
      <4> QED
        BY <1>3, <3>6, <3>7, <3>8, <3>9, <4>1, <4>2 DEF IInv, SchemaKnown, AddColumn, Ready
    <3>4. RunsKnown'
      BY <1>3, <2>2 DEF IInv, TypeOK, RunsKnown, AddColumn
    <3>5. LaunchersKnown' /\ NoServerLeft'
      BY <1>3, <2>2 DEF IInv, TypeOK, LaunchersKnown, NoServerLeft, AddColumn, Alive,
                        Migrating
    <3> QED
      BY <3>2, <3>3, <3>4, <3>5 DEF IInv
  <2> QED
    BY <2>1, <2>2
<1>4. CASE RecordVersion(p)
  <2>1. columns = Columns
    <3>1. server[p] = "opening" /\ at[p] \in 1..(NColumns + 1) /\ at[p] \notin Columns
      BY <1>4 DEF IInv, TypeOK, RecordVersion, Step
    <3>2. \A c \in Columns : c < at[p]
      BY <3>1 DEF Columns
    <3>3. Columns \subseteq columns
      BY <3>1, <3>2 DEF IInv, SchemaKnown
    <3> QED
      BY <3>3 DEF IInv, TypeOK
  <2>2. TypeOK'
    BY <1>4 DEF IInv, TypeOK, RecordVersion, Step, Alive, Migrating
  <2>3. VersionIsTrue' /\ SchemaKnown'
    BY <1>4, <2>1 DEF IInv, TypeOK, VersionIsTrue, SchemaKnown, RecordVersion, Step, Ready
  <2>4. RunsKnown'
    BY <1>4 DEF IInv, TypeOK, RunsKnown, RecordVersion, Step
  <2>5. LaunchersKnown' /\ NoServerLeft'
    BY <1>4 DEF IInv, TypeOK, LaunchersKnown, NoServerLeft, RecordVersion, Step, Alive,
                Migrating
  <2> QED
    BY <2>2, <2>3, <2>4, <2>5 DEF IInv
<1> QED
  BY <1>1, <1>2, <1>3, <1>4

\* The repair, the socket and the runs of requests.
LEMMA ServiceMoves ==
  ASSUME IInv, NEW p \in Programs,
         Repair(p) \/ Bind(p) \/ BeginRun(p) \/ EndRun(p)
  PROVE  IInv'
<1> USE ConstantsAssumption DEF ConstantsAssumption
<1>1. CASE Repair(p)
  <2>1. TypeOK'
    BY <1>1 DEF IInv, TypeOK, Repair, Step, Alive, Migrating, Columns
  <2>2. VersionIsTrue' /\ SchemaKnown'
    BY <1>1 DEF IInv, TypeOK, VersionIsTrue, SchemaKnown, Repair, Step, Ready, Columns
  <2>3. RunsKnown'
    BY <1>1 DEF IInv, TypeOK, RunsKnown, Repair, Step
  <2>4. LaunchersKnown' /\ NoServerLeft'
    BY <1>1 DEF IInv, TypeOK, LaunchersKnown, NoServerLeft, Repair, Step, Alive, Migrating
  <2> QED
    BY <2>1, <2>2, <2>3, <2>4 DEF IInv
<1>2. CASE Bind(p)
  <2>1. CASE Held(port[p])
    <3>1. server[p] \in Alive
      BY <1>2 DEF Bind, Alive
    <3> QED
      BY <1>2, <2>1, <3>1, EndMoves DEF Bind, IInv, TypeOK
  <2>2. CASE ~Held(port[p])
    <3>1. TypeOK'
      BY <1>2, <2>2 DEF IInv, TypeOK, Bind, Alive
    <3>2. VersionIsTrue' /\ SchemaKnown'
      BY <1>2, <2>2 DEF IInv, TypeOK, VersionIsTrue, SchemaKnown, Bind, Ready
    <3>3. RunsKnown'
      BY <1>2, <2>2 DEF IInv, TypeOK, RunsKnown, Bind
    <3>4. LaunchersKnown' /\ NoServerLeft'
      BY <1>2, <2>2 DEF IInv, TypeOK, LaunchersKnown, NoServerLeft, Bind, Alive, Migrating
    <3> QED
      BY <3>1, <3>2, <3>3, <3>4 DEF IInv
  <2> QED
    BY <2>1, <2>2
<1>3. CASE BeginRun(p) \/ EndRun(p)
  <2>1. /\ UNCHANGED <<program, port, server, at, absent, columns, version, missed, mishaps>>
        /\ Serves(p) /\ running' \subseteq running \cup {p}
    BY <1>3 DEF BeginRun, EndRun
  <2>2. TypeOK'
    BY <2>1 DEF IInv, TypeOK
  <2>3. VersionIsTrue' /\ SchemaKnown'
    BY <2>1 DEF IInv, VersionIsTrue, SchemaKnown
  <2>4. RunsKnown'
    BY <2>1 DEF IInv, RunsKnown, Serves
  <2>5. LaunchersKnown' /\ NoServerLeft'
    BY <2>1 DEF IInv, LaunchersKnown, NoServerLeft
  <2> QED
    BY <2>2, <2>3, <2>4, <2>5 DEF IInv
<1> QED
  BY <1>1, <1>2, <1>3

-----------------------------------------------------------------------------
\* Whatever happens, the database and the processes stay in order.
LEMMA NextIInv == IInv /\ [Next]_vars => IInv'
<1> SUFFICES ASSUME IInv, [Next]_vars PROVE IInv'
  OBVIOUS
<1>1. CASE Next
  <2>1. PICK p \in Programs :
          \/ Start(p) \/ Launcher(p) \/ Close(p) \/ TooSlow(p) \/ LauncherDies(p)
          \/ Server(p) \/ BeginRun(p) \/ EndRun(p) \/ ServerDies(p)
    BY <1>1 DEF Next
  <2>2. CASE Start(p) \/ ChoosePort(p) \/ Answered(p) \/ GiveUp(p) \/ End(p)
               \/ Close(p) \/ TooSlow(p) \/ LauncherDies(p)
    BY <2>2, LauncherMoves
  <2>3. CASE Launch(p)
    BY <2>3, LaunchMoves
  <2>4. CASE StopServer(p) \/ ServerDies(p)
    <3>1. mishaps' \in 0..MaxMishaps
      BY <2>4, ConstantsAssumption
         DEF IInv, TypeOK, StopServer, ServerDies, Mishap, ConstantsAssumption
    <3> QED
      BY <2>4, <3>1, EndMoves DEF StopServer, ServerDies
  <2>5. CASE Server(p)
    BY <2>5, SchemaMoves, ServiceMoves DEF Server
  <2>6. CASE BeginRun(p) \/ EndRun(p)
    BY <2>6, ServiceMoves
  <2> QED
    BY <2>1, <2>2, <2>3, <2>4, <2>5, <2>6 DEF Launcher
<1>2. CASE UNCHANGED vars
  BY <1>2 DEF vars, IInv, TypeOK, VersionIsTrue, SchemaKnown, RunsKnown, LaunchersKnown,
              NoServerLeft
<1> QED
  BY <1>1, <1>2

\* The variables keep their types: the tried port and the place in init_db stay
\* within their ranges.
THEOREM TypeCorrect == Spec => []TypeOK
<1>1. IInv => TypeOK
  BY DEF IInv
<1> QED
  BY <1>1, InitIInv, NextIInv, PTL DEF Spec

\* The version is recorded over a complete schema only, a server that answers has
\* a complete schema and has repaired what it was left, and a program that ends
\* leaves no server: for any number of programs that start over one database,
\* whichever of them fail or are killed on the way.
THEOREM DatabaseStaysReady == Spec => []DatabaseIsReady
<1>1. IInv => DatabaseIsReady
  BY DEF IInv, DatabaseIsReady, ServingIsReady, Serves, SchemaKnown, RunsKnown, Ready
<1> QED
  BY <1>1, InitIInv, NextIInv, PTL DEF Spec

=============================================================================
