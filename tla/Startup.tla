------------------------------ MODULE Startup -------------------------------
(***************************************************************************)
(* The way of a backend instance from its start to serving: connect,       *)
(* migrate, seed the empty tables one after the other, reach Redis.        *)
(* Several instances may start on one database at the same time, each may  *)
(* end at any point, and Docker starts it again.                           *)
(***************************************************************************)
EXTENDS Naturals, Sequences

CONSTANTS
  Instances,        \* backends sharing the database
  Order,            \* the tables in the order in which they are seeded
  Versioned,        \* the tables seeded together with their revisions
  Removable,        \* the tables whose rows an administrator can delete
  Attempts,         \* how often an instance tries to connect (20 in the code)
  RedisConfigured,  \* FALSE: REDIS_ADDR is empty
  MaxTrouble        \* bound on outages and untimely ends of a process

Tables == {Order[n] : n \in 1..Len(Order)}

ASSUME StartupAssumption ==
  /\ Order \in Seq(Tables) /\ Order # <<>>
  /\ \A m, n \in 1..Len(Order) : Order[m] = Order[n] => m = n
  /\ Versioned \subseteq Tables /\ Removable \subseteq Tables
  /\ Attempts \in Nat \ {0} /\ MaxTrouble \in Nat
  /\ RedisConfigured \in BOOLEAN

VARIABLES
  up,      \* the services that answer
  schema,  \* whether the tables exist
  table,   \* each table: how many times its seed was inserted, how many times
           \* the revisions of the seed were, whether it has a row not deleted
  proc,    \* each process: where it is, its attempts to connect, the index of
           \* the table it seeds next
  trouble  \* outages and untimely ends so far

vars == <<up, schema, table, proc, trouble>>

Services == {"database", "redis"}

Down == [pc |-> "down", attempt |-> 0, next |-> 1]

Init ==
  /\ up = Services
  /\ schema = FALSE
  /\ table = [t \in Tables |-> [seeds |-> 0, chains |-> 0, live |-> FALSE]]
  /\ proc = [i \in Instances |-> Down]
  /\ trouble = 0

-----------------------------------------------------------------------------
Goto(i, pc) == proc' = [proc EXCEPT ![i].pc = pc]

(* os.Exit(1): "startup dependency failed". *)
Exit(i) == proc' = [proc EXCEPT ![i] = Down]

(* The restart policy of the container. *)
Start(i) ==
  /\ proc[i].pc = "down"
  /\ proc' = [proc EXCEPT ![i] = [Down EXCEPT !.pc = "connect", !.attempt = 1]]
  /\ UNCHANGED <<up, schema, table, trouble>>

Connect(i) ==
  /\ proc[i].pc = "connect" /\ "database" \in up
  /\ Goto(i, "migrate")
  /\ UNCHANGED <<up, schema, table, trouble>>

(* Mutant: the attempts are counted from the one before the first. *)
OneAttemptTooMany(i) ==
  /\ proc[i].pc = "connect" /\ "database" \notin up
  /\ \/ /\ proc[i].attempt <= Attempts
        /\ proc' = [proc EXCEPT ![i].attempt = @ + 1]
     \/ Exit(i)
  /\ UNCHANGED <<up, schema, table, trouble>>

(* After a second the next attempt, but for the last and for the time of *)
(* STARTUP_TIMEOUT, which may be over during any of them.                *)
ConnectFails(i) ==
  /\ proc[i].pc = "connect" /\ "database" \notin up
  /\ \/ /\ proc[i].attempt < Attempts
        /\ proc' = [proc EXCEPT ![i].attempt = @ + 1]
     \/ Exit(i)
  /\ UNCHANGED <<up, schema, table, trouble>>

(* AutoMigrate looks which tables exist and creates the others, here all of *)
(* them as one; who finds them created in between fails.                    *)
Migrate(i) ==
  /\ proc[i].pc = "migrate" /\ "database" \in up
  /\ Goto(i, IF schema THEN "count" ELSE "create")
  /\ UNCHANGED <<up, schema, table, trouble>>

CreateTables(i) ==
  /\ proc[i].pc = "create" /\ "database" \in up
  /\ schema' = TRUE
  /\ IF schema THEN Exit(i) ELSE Goto(i, "count")
  /\ UNCHANGED <<up, table, trouble>>

Current(i) == Order[proc[i].next]

(* On to the next table, to Redis, or to serving. *)
Advance(i) ==
  LET p == proc[i] IN
  proc' = [proc EXCEPT ![i] =
    IF p.next < Len(Order) THEN [p EXCEPT !.pc = "count", !.next = p.next + 1]
    ELSE [p EXCEPT !.pc = IF RedisConfigured THEN "redis" ELSE "serving"]]

(* The count does not see rows that are soft-deleted. *)
Count(i) ==
  /\ proc[i].pc = "count" /\ "database" \in up
  /\ IF table[Current(i)].live THEN Advance(i) ELSE Goto(i, "insert")
  /\ UNCHANGED <<up, schema, table, trouble>>

(* Mutant: the index covers the rows that are not deleted. *)
LiveCodesAreFree(t) == ~table[t].live

(* Deleted or not, a row keeps its code in the unique index. *)
CodesAreFree(t) == table[t].seeds = 0

(* Mutant: rows and revisions are inserted by two transactions. *)
InsertInTwoSteps(i) ==
  LET t == Current(i) IN
  /\ "database" \in up
  /\ \/ /\ proc[i].pc = "insert" /\ CodesAreFree(t)
        /\ table' = [table EXCEPT ![t].seeds = @ + 1, ![t].live = TRUE]
        /\ Goto(i, "revisions")
     \/ /\ proc[i].pc = "revisions"
        /\ table' = [table EXCEPT ![t].chains = @ + 1]
        /\ Advance(i)
  /\ UNCHANGED <<up, schema, trouble>>

(* One statement, or one transaction for rows and revisions. *)
Insert(i) ==
  LET t == Current(i) IN
  /\ proc[i].pc = "insert" /\ "database" \in up
  /\ CodesAreFree(t)
  /\ table' = [table EXCEPT ![t] =
                 [seeds |-> @.seeds + 1, live |-> TRUE,
                  chains |-> IF t \in Versioned THEN @.chains + 1 ELSE @.chains]]
  /\ Advance(i)
  /\ UNCHANGED <<up, schema, trouble>>

(* Mutant: a refused seed is tried again instead of ending the process. *)
InsertTriedAgain(i) ==
  /\ proc[i].pc = "insert" /\ "database" \in up
  /\ ~CodesAreFree(Current(i))
  /\ UNCHANGED vars

InsertRefused(i) ==
  /\ proc[i].pc = "insert" /\ "database" \in up
  /\ ~CodesAreFree(Current(i))
  /\ Exit(i)
  /\ UNCHANGED <<up, schema, table, trouble>>

QueryFails(i) ==
  /\ proc[i].pc \in {"migrate", "create", "count", "insert"} /\ "database" \notin up
  /\ Exit(i)
  /\ UNCHANGED <<up, schema, table, trouble>>

PingRedis(i) ==
  /\ proc[i].pc = "redis"
  /\ IF "redis" \in up THEN Goto(i, "serving") ELSE Exit(i)
  /\ UNCHANGED <<up, schema, table, trouble>>

-----------------------------------------------------------------------------
(* The administrators, through an instance that serves. *)

Serving == {i \in Instances : proc[i].pc = "serving"}

Remove(t) ==
  /\ Serving # {} /\ "database" \in up
  /\ t \in Removable /\ table[t].live
  /\ table' = [table EXCEPT ![t].live = FALSE]
  /\ UNCHANGED <<up, schema, proc, trouble>>

Add(t) ==
  /\ Serving # {} /\ "database" \in up
  /\ t \in Removable /\ ~table[t].live
  /\ table' = [table EXCEPT ![t].live = TRUE]
  /\ UNCHANGED <<up, schema, proc, trouble>>

-----------------------------------------------------------------------------
(* The surroundings. *)

Trouble == trouble < MaxTrouble /\ trouble' = trouble + 1

(* A crash, a stopped container, or STARTUP_TIMEOUT is over in a query. *)
End(i) ==
  /\ Trouble
  /\ proc[i].pc # "down"
  /\ Exit(i)
  /\ UNCHANGED <<up, schema, table>>

Outage(s) ==
  /\ Trouble
  /\ s \in up
  /\ up' = up \ {s}
  /\ UNCHANGED <<schema, table, proc>>

Recover(s) ==
  /\ s \notin up
  /\ up' = up \cup {s}
  /\ UNCHANGED <<schema, table, proc, trouble>>

Step(i) ==
  \/ Start(i) \/ Connect(i) \/ ConnectFails(i) \/ Migrate(i) \/ CreateTables(i)
  \/ Count(i) \/ Insert(i) \/ InsertRefused(i) \/ QueryFails(i) \/ PingRedis(i)

Next ==
  \/ \E i \in Instances : Step(i) \/ End(i)
  \/ \E t \in Tables : Remove(t) \/ Add(t)
  \/ \E s \in Services : Outage(s) \/ Recover(s)

Spec == Init /\ [][Next]_vars

(* Processes run on and are started again; outages end. *)
FairSpec ==
  /\ Spec
  /\ \A i \in Instances : WF_vars(Step(i))
  /\ \A s \in Services : WF_vars(Recover(s))

-----------------------------------------------------------------------------
(* Types of the tables and the processes. *)
TypeOK ==
  /\ up \subseteq Services
  /\ schema \in BOOLEAN
  /\ table \in [Tables -> [seeds : Nat, chains : Nat, live : BOOLEAN]]
  /\ proc \in [Instances ->
       [pc : {"down", "connect", "migrate", "create", "count", "insert", "redis", "serving"},
        attempt : 0..Attempts, next : 1..Len(Order)]]
  /\ trouble \in 0..MaxTrouble

(* However many instances start together and wherever they end: who serves *)
(* finds every table seeded once, and with it the revisions of its rows.   *)
ServesSeeded ==
  Serving # {} =>
    \A t \in Tables : /\ table[t].seeds = 1
                      /\ t \in Versioned => table[t].chains = 1

(* A table whose every row has been removed. *)
Emptied(t) == table[t].seeds > 0 /\ ~table[t].live

(* The process has table t behind it. *)
Past(i, t) ==
  \/ proc[i].pc \in {"redis", "serving"}
  \/ \E n \in 1..(proc[i].next - 1) : Order[n] = t

(* A table is empty and no process has it behind it. *)
Trapped == \E t \in Tables : Emptied(t) /\ \A i \in Instances : ~Past(i, t)

(* The seed of an emptied table collides with the removed rows: from then  *)
(* on no restart of any instance brings the service back, and only through *)
(* a serving instance could a row be added.                                *)
DeadOnceEmptied == [][Trapped => Trapped' /\ Serving' = {}]_vars

(* Otherwise every instance comes up for good, although a lost race on a    *)
(* seed, an outage or an end sends it through its restart again.            *)
ComesUp ==
  <>[](\A t \in Tables : ~Emptied(t)) => \A i \in Instances : <>[](i \in Serving)
=============================================================================
