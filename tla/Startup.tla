------------------------------- MODULE Startup -------------------------------
(***************************************************************************)
(* How the program comes up and goes down: desktop.py (a launcher that     *)
(* picks a port, starts the server as a process of its own, waits for an   *)
(* answer and shows a window), run.py (the server alone), the choice of a  *)
(* port in runtime.py, and what the server does before it listens: the     *)
(* schema steps of init_db in database.py and the repair of interrupted    *)
(* runs, of which app.py makes its startup.                                *)
(*                                                                         *)
(* Several programs may start over one database.  A program runs once; to  *)
(* start it again is another member of Programs.  What the repair does to  *)
(* the rows and files of a run is module RunLedger.                        *)
(***************************************************************************)
EXTENDS Integers

CONSTANTS
  Programs,   \* starts of desktop.py and of run.py
  Desktops,   \* those of desktop.py: a launcher and a server process
  Strict,     \* those started with --strict-port
  LastPort,   \* the ports tried are 1 .. LastPort
  Taken,      \* ports that some other service holds
  NColumns,   \* columns that init_db adds to an old database, in this order
  MaxMishaps  \* bound on crashes, failing statements and slow starts

ASSUME ConstantsAssumption ==
  /\ Desktops \subseteq Programs /\ Strict \subseteq Programs
  /\ LastPort \in Nat \ {0} /\ Taken \subseteq 1..LastPort
  /\ NColumns \in Nat /\ MaxMishaps \in Nat

Columns == 1..NColumns

VARIABLES
  program,   \* what each program, a launcher or the server alone, is about
  port,      \* the port it tries or has chosen
  server,    \* what its server is about
  at,        \* the column init_db has come to
  absent,    \* those of the columns whose table does not exist
  columns,   \* the columns of init_db that the database has
  version,   \* schema_migrations holds the row of this version
  running,   \* programs whose run the history calls running
  missed,    \* runs each program found abandoned when its server was started
  mishaps

vars == <<program, port, server, at, absent, columns, version, running, missed, mishaps>>

Migrating == {"creating", "opening", "adding"}
Alive == Migrating \cup {"repairing", "binding", "serving"}

TypeOK ==
  /\ program \in [Programs -> {"off", "choosing", "chosen", "waiting", "running", "open",
                               "stopping", "ended", "lost"}]
  /\ port \in [Programs -> 1..LastPort]
  /\ server \in [Programs -> {"none", "ended"} \cup Alive]
  /\ at \in [Programs -> 1..(NColumns + 1)]
  /\ absent \subseteq Columns /\ columns \subseteq Columns /\ version \in BOOLEAN
  /\ running \subseteq Programs
  /\ missed \in [Programs -> SUBSET Programs]
  /\ mishaps \in 0..MaxMishaps

\* The database is new, of an older version, which may lack tables and columns of
\* the others, or of this one, or what a start that was cut short has left.
Init ==
  /\ program = [p \in Programs |-> "off"]
  /\ port = [p \in Programs |-> 1]
  /\ server = [p \in Programs |-> "none"]
  /\ at = [p \in Programs |-> 1]
  /\ absent \in SUBSET Columns
  /\ columns \in SUBSET (Columns \ absent)
  /\ version \in {v \in BOOLEAN : v => columns = Columns}
  /\ running = {}
  /\ missed = [p \in Programs |-> {}]
  /\ mishaps = 0

Serves(q) == server[q] = "serving"
Answering(n) == \E q \in Programs : Serves(q) /\ port[q] = n
Held(n) == n \in Taken \/ Answering(n)

-----------------------------------------------------------------------------
(* The program: main of desktop.py and of run.py.                          *)

Goes(p, state) == program' = [program EXCEPT ![p] = state]

Start(p) ==
  /\ program[p] = "off"
  /\ Goes(p, IF p \in Strict THEN "chosen" ELSE "choosing")
  /\ UNCHANGED <<port, server, at, absent, columns, version, running, missed, mishaps>>

\* Variant: no last attempt.
ChoosePort_Endless(p) ==
  /\ program[p] = "choosing"
  /\ IF ~Held(port[p])
       THEN Goes(p, "chosen") /\ UNCHANGED port
       ELSE port' = [port EXCEPT ![p] = @ + 1] /\ UNCHANGED program
  /\ UNCHANGED <<server, at, absent, columns, version, running, missed, mishaps>>

\* is_port_available binds the port and lets go of it again: nothing keeps it
\* for the server that will want it.
ChoosePort(p) ==
  /\ program[p] = "choosing"
  /\ IF ~Held(port[p])
       THEN Goes(p, "chosen") /\ UNCHANGED port
       ELSE IF port[p] < LastPort
         THEN port' = [port EXCEPT ![p] = @ + 1] /\ UNCHANGED program
         ELSE Goes(p, "ended") /\ UNCHANGED port
  /\ UNCHANGED <<server, at, absent, columns, version, running, missed, mishaps>>

Abandoned == {q \in running : server[q] \notin Alive}

\* The launcher starts its server process; run.py becomes the server.
Launch(p) ==
  /\ program[p] = "chosen"
  /\ Goes(p, IF p \in Desktops THEN "waiting" ELSE "running")
  /\ server' = [server EXCEPT ![p] = "creating"]
  /\ missed' = [missed EXCEPT ![p] = Abandoned]
  /\ UNCHANGED <<port, at, absent, columns, version, running, mishaps>>

\* _wait_for_server is content with an answer of any server on that port.
Answered(p) ==
  /\ program[p] = "waiting" /\ Answering(port[p])
  /\ Goes(p, "open")
  /\ UNCHANGED <<port, server, at, absent, columns, version, running, missed, mishaps>>

Mishap == mishaps < MaxMishaps /\ mishaps' = mishaps + 1

\* Variant: the wait has no end.
GiveUp_Never(p) == FALSE /\ UNCHANGED vars

\* The server has ended, nobody answers, and the launcher waits until its time
\* is up all the same.
GiveUp(p) ==
  /\ program[p] = "waiting" /\ server[p] = "ended" /\ ~Answering(port[p])
  /\ Goes(p, "stopping")
  /\ UNCHANGED <<port, server, at, absent, columns, version, running, missed, mishaps>>

\* The time is up while the server is still on its way.
TooSlow(p) ==
  /\ program[p] = "waiting" /\ server[p] \in Alive
  /\ Mishap /\ Goes(p, "stopping")
  /\ UNCHANGED <<port, server, at, absent, columns, version, running, missed>>

\* The window is closed, or the server of run.py is told to stop.
Close(p) ==
  /\ program[p] = "open" \/ (program[p] = "running" /\ Serves(p))
  /\ Goes(p, "stopping")
  /\ UNCHANGED <<port, server, at, absent, columns, version, running, missed, mishaps>>

\* With the process go its place in init_db and what was left to it.
ServerEnds(p) ==
  /\ server' = [server EXCEPT ![p] = "ended"]
  /\ at' = [at EXCEPT ![p] = 1]
  /\ missed' = [missed EXCEPT ![p] = {}]

\* _stop_server_process: the launcher ends its own server, by force if it must,
\* and waits until it is gone.
StopServer(p) ==
  /\ program[p] = "stopping" /\ server[p] \in Alive
  /\ ServerEnds(p)
  /\ UNCHANGED <<program, port, absent, columns, version, running, mishaps>>

\* Variant: a launcher does not wait for the end of its server.
End_Early(p) ==
  /\ program[p] = "stopping"
  /\ Goes(p, "ended")
  /\ UNCHANGED <<port, server, at, absent, columns, version, running, missed, mishaps>>

End(p) ==
  /\ \/ program[p] = "stopping" /\ server[p] \notin Alive
     \/ program[p] = "running" /\ server[p] = "ended"
  /\ Goes(p, "ended")
  /\ UNCHANGED <<port, server, at, absent, columns, version, running, missed, mishaps>>

\* The launcher is killed, or the window toolkit cannot be imported or cannot
\* make a window: its server stays.
LauncherDies(p) ==
  /\ program[p] \in {"waiting", "open"}
  /\ Mishap /\ Goes(p, "lost")
  /\ UNCHANGED <<port, server, at, absent, columns, version, running, missed>>

-----------------------------------------------------------------------------
(* The server: startup of app.py, then uvicorn listens.                    *)

Step(p, from, to) ==
  /\ server[p] = from /\ server' = [server EXCEPT ![p] = to]
  /\ UNCHANGED <<program, port, missed, mishaps>>

\* CREATE TABLE IF NOT EXISTS, for each table: what exists stays as it is.
CreateTables(p) ==
  /\ Step(p, "creating", "opening")
  /\ columns' = columns \cup absent /\ absent' = {}
  /\ UNCHANGED <<at, version, running>>

\* Variant: the row of the version is written with the tables, before the columns.
ReadColumns_VersionFirst(p) ==
  /\ server[p] = "opening" /\ at[p] \in Columns
  /\ IF at[p] \in columns
       THEN at' = [at EXCEPT ![p] = @ + 1] /\ UNCHANGED server
       ELSE server' = [server EXCEPT ![p] = "adding"] /\ UNCHANGED at
  /\ version' = TRUE
  /\ UNCHANGED <<program, port, absent, columns, running, missed, mishaps>>

\* Variant: the column is added unseen, as ALTER TABLE alone would.
ReadColumns_Never(p) ==
  /\ server[p] = "opening" /\ at[p] \in Columns
  /\ server' = [server EXCEPT ![p] = "adding"]
  /\ UNCHANGED <<program, port, at, absent, columns, version, running, missed, mishaps>>

\* _add_column reads the columns of the table ...
ReadColumns(p) ==
  /\ server[p] = "opening" /\ at[p] \in Columns
  /\ IF at[p] \in columns
       THEN at' = [at EXCEPT ![p] = @ + 1] /\ UNCHANGED server
       ELSE server' = [server EXCEPT ![p] = "adding"] /\ UNCHANGED at
  /\ UNCHANGED <<program, port, absent, columns, version, running, missed, mishaps>>

\* ... and adds one in a statement of its own, which another server may have done
\* in between: then the statement fails, and with it the start.
AddColumn(p) ==
  /\ server[p] = "adding"
  /\ IF at[p] \in columns
       THEN ServerEnds(p) /\ UNCHANGED columns
       ELSE /\ columns' = columns \cup {at[p]}
            /\ at' = [at EXCEPT ![p] = @ + 1]
            /\ server' = [server EXCEPT ![p] = "opening"]
            /\ UNCHANGED missed
  /\ UNCHANGED <<program, port, absent, version, running, mishaps>>

\* Variant: the server listens first and repairs in the background.
RecordVersion_Listens(p) ==
  /\ at[p] \notin Columns
  /\ Step(p, "opening", "binding")
  /\ version' = TRUE
  /\ UNCHANGED <<at, absent, columns, running>>

\* The row of the version, and the commit.
RecordVersion(p) ==
  /\ at[p] \notin Columns
  /\ Step(p, "opening", "repairing")
  /\ version' = TRUE
  /\ UNCHANGED <<at, absent, columns, running>>

\* mark_interrupted_runs: every run in the history that is called running is, and
\* not only the runs of servers that have ended.
Repair(p) ==
  /\ Step(p, "repairing", "binding")
  /\ running' = {}
  /\ UNCHANGED <<at, absent, columns, version>>

\* Listening comes last: a server that finds its port held has repaired already.
Bind(p) ==
  /\ server[p] = "binding"
  /\ IF Held(port[p])
       THEN ServerEnds(p)
       ELSE server' = [server EXCEPT ![p] = "serving"] /\ UNCHANGED <<at, missed>>
  /\ UNCHANGED <<program, port, absent, columns, version, running, mishaps>>

\* A run of this server, of which the history says running until it has ended or
\* a repair has called it interrupted.
BeginRun(p) ==
  /\ Serves(p) /\ p \notin running
  /\ running' = running \cup {p}
  /\ UNCHANGED <<program, port, server, at, absent, columns, version, missed, mishaps>>

EndRun(p) ==
  /\ Serves(p) /\ p \in running
  /\ running' = running \ {p}
  /\ UNCHANGED <<program, port, server, at, absent, columns, version, missed, mishaps>>

\* The server is killed, or a statement of its startup fails.
ServerDies(p) ==
  /\ server[p] \in Alive /\ Mishap
  /\ ServerEnds(p)
  /\ UNCHANGED <<program, port, absent, columns, version, running>>

Launcher(p) ==
  \/ ChoosePort(p) \/ Launch(p) \/ Answered(p)
  \/ GiveUp(p) \/ StopServer(p) \/ End(p)

Server(p) ==
  \/ CreateTables(p) \/ ReadColumns(p) \/ AddColumn(p)
  \/ RecordVersion(p) \/ Repair(p) \/ Bind(p)

Next ==
  \E p \in Programs :
    \/ Start(p) \/ Launcher(p) \/ Close(p) \/ TooSlow(p) \/ LauncherDies(p)
    \/ Server(p) \/ BeginRun(p) \/ EndRun(p) \/ ServerDies(p)

\* Processes go on with what they have begun; nobody has to start or close one.
Fairness == \A p \in Programs : WF_vars(Launcher(p)) /\ WF_vars(Server(p))

Spec == Init /\ [][Next]_vars /\ Fairness

-----------------------------------------------------------------------------
(* Safety.                                                                 *)

\* The row of the version is only there when every column is, whatever point a
\* start was cut short at and however two starts were interleaved.
VersionIsTrue == version => columns = Columns

\* A server that answers works on a complete schema and has repaired: no run
\* that was abandoned before it was started is called running any more.
ServingIsReady ==
  \A p \in Programs :
    Serves(p) => columns = Columns /\ version /\ missed[p] \cap running = {}

\* A program that ended of itself, with its window closed, without an answer or
\* without a port, has left no server behind.
NoServerLeft == \A p \in Programs : program[p] = "ended" => server[p] \notin Alive

\* What is true of the database and the processes whenever somebody can look:
\* init_db, the startup of app.py and _stop_server_process together.
DatabaseIsReady == VersionIsTrue /\ ServingIsReady /\ NoServerLeft

-----------------------------------------------------------------------------
(* Liveness.                                                               *)

Begun == {"choosing", "chosen", "waiting"}

\* Each start ends with a window, a server of run.py that listens, or the end of
\* the program.
EveryStartSettles ==
  \A p \in Programs :
    (program[p] \in Begun) ~>
      (program[p] \in {"open", "ended", "lost"} \/ (program[p] = "running" /\ Serves(p)))

\* Servers that migrate one old database can make each other's start fail, but
\* never all of them: unless something else ends one, the schema is completed.
SchemaArrives ==
  (\E p \in Programs : server[p] \in Migrating) ~> (version \/ mishaps > 0)

\* Starts do not hang and do not defeat each other: _wait_for_server with its
\* deadline, and _add_column, whose failure means that another one added it.
StartsSucceed == EveryStartSettles /\ SchemaArrives

=============================================================================
