---------------------------- MODULE StartupProofs ---------------------------
(***************************************************************************)
(* Startup keeps its types, whoever serves finds every table seeded once,  *)
(* and a table that has been emptied keeps the service down: for any       *)
(* number of instances and tables, and any number of outages and ends.     *)
(***************************************************************************)
EXTENDS Startup, TLAPS

LEMMA OrderIsSequence ==
  /\ Len(Order) \in Nat \ {0}
  /\ \A n \in 1..Len(Order) : Order[n] \in Tables
<1>1. Order \in Seq(Tables) /\ Order # <<>>
  BY StartupAssumption
<1> QED BY <1>1 DEF Tables

(***************************************************************************)
(* Types.                                                                  *)
(***************************************************************************)
ProcessType ==
  [pc : {"down", "connect", "migrate", "create", "count", "insert", "redis", "serving"},
   attempt : 0..Attempts, next : 1..Len(Order)]

LEMMA DownIsProcess == Down \in ProcessType
BY OrderIsSequence, StartupAssumption DEF Down, ProcessType

LEMMA CurrentIsTable ==
  ASSUME TypeOK, NEW i \in Instances
  PROVE  Current(i) \in Tables
BY OrderIsSequence DEF Current, TypeOK

LEMMA AdvanceType ==
  ASSUME TypeOK, NEW i \in Instances, Advance(i)
  PROVE  proc' \in [Instances -> ProcessType]
<1>1. proc[i] \in ProcessType /\ proc \in [Instances -> ProcessType]
  BY DEF TypeOK, ProcessType
<1>2. CASE proc[i].next < Len(Order)
  <2>1. proc' = [proc EXCEPT ![i] = [proc[i] EXCEPT !.pc = "count", !.next = proc[i].next + 1]]
    BY <1>2 DEF Advance
  <2>2. proc[i].next + 1 \in 1..Len(Order)
    BY <1>1, <1>2, OrderIsSequence DEF ProcessType
  <2>3. [proc[i] EXCEPT !.pc = "count", !.next = proc[i].next + 1] \in ProcessType
    BY <1>1, <2>2 DEF ProcessType
  <2> QED BY <1>1, <2>1, <2>3
<1>3. CASE ~(proc[i].next < Len(Order))
  <2>1. proc' = [proc EXCEPT ![i] =
                   [proc[i] EXCEPT !.pc = IF RedisConfigured THEN "redis" ELSE "serving"]]
    BY <1>3 DEF Advance
  <2> QED BY <1>1, <2>1 DEF ProcessType
<1> QED BY <1>2, <1>3

LEMMA GotoType ==
  ASSUME TypeOK, NEW i \in Instances,
         NEW pc \in {"migrate", "create", "count", "insert", "serving"}, Goto(i, pc)
  PROVE  proc' \in [Instances -> ProcessType]
<1>1. proc[i] \in ProcessType /\ proc \in [Instances -> ProcessType]
  BY DEF TypeOK, ProcessType
<1>2. [proc[i] EXCEPT !.pc = pc] \in ProcessType
  BY <1>1 DEF ProcessType
<1> QED BY <1>1, <1>2 DEF Goto

LEMMA ExitType ==
  ASSUME TypeOK, NEW i \in Instances, Exit(i)
  PROVE  proc' \in [Instances -> ProcessType]
BY DownIsProcess DEF Exit, TypeOK, ProcessType

LEMMA TypeInit == Init => TypeOK
<1> SUFFICES ASSUME Init PROVE TypeOK
  OBVIOUS
<1>1. proc \in [Instances -> ProcessType]
  BY DownIsProcess DEF Init
<1>2. table \in [Tables -> [seeds : Nat, chains : Nat, live : BOOLEAN]]
  BY DEF Init
<1>3. up \subseteq Services /\ schema \in BOOLEAN
  BY DEF Init
<1>4. trouble \in 0..MaxTrouble
  BY StartupAssumption DEF Init
<1> QED BY <1>1, <1>2, <1>3, <1>4 DEF TypeOK, ProcessType

LEMMA TypeStep == TypeOK /\ [Next]_vars => TypeOK'
<1> SUFFICES ASSUME TypeOK, [Next]_vars PROVE TypeOK'
  OBVIOUS
<1>0. /\ proc \in [Instances -> ProcessType]
      /\ TypeOK' <=> /\ up' \subseteq Services /\ schema' \in BOOLEAN
                     /\ table' \in [Tables -> [seeds : Nat, chains : Nat, live : BOOLEAN]]
                     /\ proc' \in [Instances -> ProcessType]
                     /\ trouble' \in 0..MaxTrouble
  BY DEF TypeOK, ProcessType
<1>1. ASSUME NEW i \in Instances, Start(i) PROVE TypeOK'
  <2>1. [Down EXCEPT !.pc = "connect", !.attempt = 1] \in ProcessType
    <3>1. Down \in ProcessType /\ 1 \in 0..Attempts
      BY DownIsProcess, StartupAssumption
    <3> QED BY <3>1 DEF ProcessType
  <2> QED BY <1>0, <1>1, <2>1 DEF Start, TypeOK
<1>2. ASSUME NEW i \in Instances, Connect(i) PROVE TypeOK'
  BY <1>0, <1>2, GotoType DEF Connect, TypeOK
<1>3. ASSUME NEW i \in Instances, ConnectFails(i) PROVE TypeOK'
  <2>1. CASE Exit(i)
    BY <1>0, <1>3, <2>1, ExitType DEF ConnectFails, TypeOK
  <2>2. CASE proc[i].attempt < Attempts /\ proc' = [proc EXCEPT ![i].attempt = @ + 1]
    <3>1. proc[i].attempt + 1 \in 0..Attempts
      BY <1>0, <2>2, StartupAssumption DEF ProcessType
    <3>2. [proc[i] EXCEPT !.attempt = @ + 1] \in ProcessType
      BY <1>0, <3>1 DEF ProcessType
    <3> QED BY <1>0, <1>3, <2>2, <3>2 DEF ConnectFails, TypeOK
  <2> QED BY <1>3, <2>1, <2>2 DEF ConnectFails
<1>4. ASSUME NEW i \in Instances, Migrate(i) PROVE TypeOK'
  BY <1>0, <1>4, GotoType DEF Migrate, TypeOK
<1>5. ASSUME NEW i \in Instances, CreateTables(i) PROVE TypeOK'
  BY <1>0, <1>5, ExitType, GotoType DEF CreateTables, TypeOK
<1>6. ASSUME NEW i \in Instances, Count(i) PROVE TypeOK'
  <2>1. CASE table[Current(i)].live
    BY <1>0, <1>6, <2>1, AdvanceType DEF Count, TypeOK
  <2>2. CASE ~table[Current(i)].live
    BY <1>0, <1>6, <2>2, GotoType DEF Count, TypeOK
  <2> QED BY <2>1, <2>2
<1>7. ASSUME NEW i \in Instances, Insert(i) PROVE TypeOK'
  <2>1. proc' \in [Instances -> ProcessType]
    BY <1>7, AdvanceType DEF Insert
  <2>2. table' \in [Tables -> [seeds : Nat, chains : Nat, live : BOOLEAN]]
    BY <1>7, CurrentIsTable DEF Insert, TypeOK
  <2> QED BY <1>0, <1>7, <2>1, <2>2 DEF Insert, TypeOK
<1>8. ASSUME NEW i \in Instances, InsertRefused(i) \/ QueryFails(i) PROVE TypeOK'
  BY <1>0, <1>8, ExitType DEF InsertRefused, QueryFails, TypeOK
<1>9. ASSUME NEW i \in Instances, PingRedis(i) PROVE TypeOK'
  BY <1>0, <1>9, ExitType, GotoType DEF PingRedis, TypeOK
<1>10. ASSUME NEW i \in Instances, End(i) PROVE TypeOK'
  <2>1. trouble' \in 0..MaxTrouble
    BY <1>10, StartupAssumption DEF End, Trouble, TypeOK
  <2>2. proc' \in [Instances -> ProcessType]
    BY <1>10, ExitType DEF End
  <2> QED BY <1>0, <1>10, <2>1, <2>2 DEF End, TypeOK
<1>11. ASSUME NEW t \in Tables, Remove(t) \/ Add(t) PROVE TypeOK'
  <2>1. ASSUME NEW present \in BOOLEAN, table' = [table EXCEPT ![t].live = present]
        PROVE table' \in [Tables -> [seeds : Nat, chains : Nat, live : BOOLEAN]]
    BY <2>1 DEF TypeOK
  <2> QED BY <1>0, <1>11, <2>1 DEF Remove, Add, TypeOK
<1>12. ASSUME NEW s \in Services, Outage(s) \/ Recover(s) PROVE TypeOK'
  BY <1>0, <1>12, StartupAssumption DEF Outage, Recover, Trouble, TypeOK
<1>13. CASE UNCHANGED vars
  BY <1>13 DEF vars, TypeOK
<1> QED
  BY <1>1, <1>2, <1>3, <1>4, <1>5, <1>6, <1>7, <1>8, <1>9, <1>10, <1>11, <1>12, <1>13
  DEF Next, Step

(* Types of the tables and the processes, whatever interleaves and fails. *)
THEOREM StartupTypes == Spec => []TypeOK
BY TypeInit, TypeStep, PTL DEF Spec

(***************************************************************************)
(* How processes leave tables behind, and how tables change.               *)
(***************************************************************************)

(* Only the process that moves on leaves a table behind, the one it was at. *)
LEMMA AdvancePast ==
  ASSUME TypeOK, NEW i \in Instances, Advance(i),
         NEW j \in Instances, NEW t \in Tables, Past(j, t)'
  PROVE  Past(j, t) \/ t = Current(i)
<1>1. CASE j # i
  BY <1>1 DEF Past, Advance, TypeOK
<1>2. CASE j = i
  <2>1. proc[i].next \in 1..Len(Order)
    BY DEF TypeOK
  <2>2. PICK n \in 1..Len(Order) : t = Order[n]
    BY DEF Tables
  <2>3. CASE proc[i].next < Len(Order)
    <3>1. proc'[i].pc = "count" /\ proc'[i].next = proc[i].next + 1
      BY <2>3 DEF Advance, TypeOK
    <3>2. PICK m \in 1..proc[i].next : Order[m] = t
      BY <1>2, <2>1, <3>1, OrderIsSequence DEF Past
    <3>3. m = proc[i].next \/ m \in 1..(proc[i].next - 1)
      BY <2>1, <3>2, OrderIsSequence
    <3> QED BY <1>2, <3>2, <3>3 DEF Past, Current
  <2>4. CASE ~(proc[i].next < Len(Order))
    <3>1. proc[i].next = Len(Order)
      BY <2>1, <2>4, OrderIsSequence
    <3>2. n = proc[i].next \/ n \in 1..(proc[i].next - 1)
      BY <2>2, <3>1, OrderIsSequence
    <3> QED BY <1>2, <2>2, <3>2 DEF Past, Current
  <2> QED BY <2>3, <2>4
<1> QED BY <1>1, <1>2

(* A process that starts has no table behind it. *)
LEMMA DownIsPastNothing ==
  ASSUME NEW j \in Instances, NEW t,
         proc'[j] = Down \/ proc'[j] = [Down EXCEPT !.pc = "connect", !.attempt = 1]
  PROVE  ~Past(j, t)'
<1>1. CASE proc'[j] = Down
  BY <1>1 DEF Down, Past
<1>2. CASE proc'[j] = [Down EXCEPT !.pc = "connect", !.attempt = 1]
  BY <1>2 DEF Down, Past
<1> QED BY <1>1, <1>2

(* A table is passed by counting a row, or by inserting its seed. *)
LEMMA Passing ==
  ASSUME TypeOK, [Next]_vars, NEW j \in Instances, NEW t \in Tables, Past(j, t)'
  PROVE  \/ Past(j, t)
         \/ \E i \in Instances :
              /\ t = Current(i)
              /\ (Count(i) /\ table[t].live) \/ Insert(i)
<1> DEFINE Goal ==
      \/ Past(j, t)
      \/ \E i \in Instances :
           /\ t = Current(i)
           /\ (Count(i) /\ table[t].live) \/ Insert(i)
<1> SUFFICES Goal
  OBVIOUS
<1>1. ASSUME NEW i \in Instances, Exit(i) PROVE Goal
  <2>1. j # i
    BY <1>1, DownIsPastNothing DEF Exit, TypeOK
  <2> QED BY <1>1, <2>1 DEF Exit, Past, TypeOK
<1>2. ASSUME NEW i \in Instances, Start(i) PROVE Goal
  <2>1. j # i
    BY <1>2, DownIsPastNothing DEF Start, TypeOK
  <2> QED BY <1>2, <2>1 DEF Start, Past, TypeOK
<1>3. ASSUME NEW i \in Instances, NEW pc, Goto(i, pc), pc \in {"migrate", "create", "count", "insert"}
      PROVE Goal
  BY <1>3 DEF Goto, Past, TypeOK
<1>4. ASSUME NEW i \in Instances, Connect(i) \/ Migrate(i) \/ CreateTables(i) PROVE Goal
  BY <1>1, <1>3, <1>4 DEF Connect, Migrate, CreateTables
<1>5. ASSUME NEW i \in Instances, ConnectFails(i) PROVE Goal
  <2>1. CASE proc' = [proc EXCEPT ![i].attempt = @ + 1]
    BY <2>1 DEF Past, TypeOK
  <2> QED BY <1>1, <1>5, <2>1 DEF ConnectFails
<1>6. ASSUME NEW i \in Instances, Count(i) PROVE Goal
  <2>1. CASE table[Current(i)].live
    BY <1>6, <2>1, AdvancePast DEF Count
  <2>2. CASE ~table[Current(i)].live
    BY <1>3, <1>6, <2>2 DEF Count
  <2> QED BY <2>1, <2>2
<1>7. ASSUME NEW i \in Instances, Insert(i) PROVE Goal
  BY <1>7, AdvancePast DEF Insert
<1>8. ASSUME NEW i \in Instances, InsertRefused(i) \/ QueryFails(i) \/ End(i) PROVE Goal
  BY <1>1, <1>8 DEF InsertRefused, QueryFails, End
<1>9. ASSUME NEW i \in Instances, PingRedis(i) PROVE Goal
  <2>1. CASE Goto(i, "serving")
    BY <1>9, <2>1 DEF PingRedis, Goto, Past, TypeOK
  <2> QED BY <1>1, <1>9, <2>1 DEF PingRedis
<1>10. CASE UNCHANGED proc
  BY <1>10 DEF Past
<1> QED
  BY <1>2, <1>4, <1>5, <1>6, <1>7, <1>8, <1>9, <1>10
  DEF Next, Step, Remove, Add, Outage, Recover, vars

(* A table changes when its seed is inserted, or through who serves. *)
LEMMA TableChanges ==
  ASSUME TypeOK, [Next]_vars, NEW t \in Tables
  PROVE  \/ table'[t] = table[t]
         \/ \E i \in Instances :
              /\ Insert(i) /\ t = Current(i)
              /\ table'[t] = [seeds |-> table[t].seeds + 1, live |-> TRUE,
                              chains |-> IF t \in Versioned THEN table[t].chains + 1
                                         ELSE table[t].chains]
         \/ /\ Serving # {}
            /\ \E present \in BOOLEAN : table'[t] = [table[t] EXCEPT !.live = present]
<1>1. ASSUME NEW i \in Instances, Insert(i)
      PROVE \/ table'[t] = table[t]
            \/ /\ t = Current(i)
               /\ table'[t] = [seeds |-> table[t].seeds + 1, live |-> TRUE,
                               chains |-> IF t \in Versioned THEN table[t].chains + 1
                                          ELSE table[t].chains]
  BY <1>1 DEF Insert, TypeOK
<1>2. ASSUME NEW s \in Tables, Remove(s) \/ Add(s)
      PROVE \/ table'[t] = table[t]
            \/ /\ Serving # {}
               /\ \E present \in BOOLEAN : table'[t] = [table[t] EXCEPT !.live = present]
  BY <1>2 DEF Remove, Add, TypeOK
<1>3. CASE UNCHANGED table
  BY <1>3
<1> QED
  BY <1>1, <1>2, <1>3
  DEF Next, Step, Start, Connect, ConnectFails, Migrate, CreateTables, Count, InsertRefused,
      QueryFails, PingRedis, End, Outage, Recover, vars

(***************************************************************************)
(* Seeded once.                                                            *)
(***************************************************************************)
Seeded(t) == table[t].seeds = 1 /\ (t \in Versioned => table[t].chains = 1)

Untouched(t) == table[t].seeds = 0 /\ table[t].chains = 0 /\ ~table[t].live

(* A table is as it was created or has been seeded once, and it has been   *)
(* seeded when a process has it behind it.                                 *)
SeedInv ==
  /\ \A t \in Tables : Untouched(t) \/ Seeded(t)
  /\ \A i \in Instances, t \in Tables : Past(i, t) => Seeded(t)

LEMMA ServingIsPast ==
  ASSUME Serving # {}
  PROVE  \E i \in Instances : \A t : Past(i, t)
BY DEF Serving, Past

LEMMA SeedInit == Init => SeedInv
<1> SUFFICES ASSUME Init PROVE SeedInv
  OBVIOUS
<1>1. \A i \in Instances : proc[i].pc = "down" /\ proc[i].next = 1
  BY DEF Init, Down
<1>2. \A t \in Tables : Untouched(t)
  BY DEF Init, Untouched
<1> QED BY <1>1, <1>2 DEF SeedInv, Past

LEMMA SeedStep == TypeOK /\ SeedInv /\ [Next]_vars => SeedInv'
<1> SUFFICES ASSUME TypeOK, SeedInv, [Next]_vars PROVE SeedInv'
  OBVIOUS
<1>1. ASSUME NEW i \in Instances, Insert(i) PROVE Untouched(Current(i)) /\ Current(i) \in Tables
  BY <1>1, CurrentIsTable DEF Insert, CodesAreFree, SeedInv, Seeded, Untouched
<1>2. ASSUME NEW t \in Tables, Seeded(t) PROVE Seeded(t)'
  <2>1. CASE table'[t] = table[t]
    BY <1>2, <2>1 DEF Seeded
  <2>2. ASSUME NEW i \in Instances, Insert(i), t = Current(i) PROVE FALSE
    BY <1>1, <1>2, <2>2 DEF Seeded, Untouched
  <2>3. ASSUME NEW present \in BOOLEAN, table'[t] = [table[t] EXCEPT !.live = present]
        PROVE Seeded(t)'
    BY <1>2, <2>3 DEF Seeded, TypeOK
  <2> QED BY <2>1, <2>2, <2>3, TableChanges
<1>3. ASSUME NEW i \in Instances, Insert(i), NEW t \in Tables, t = Current(i) PROVE Seeded(t)'
  <2>1. table'[t] = [seeds |-> table[t].seeds + 1, live |-> TRUE,
                     chains |-> IF t \in Versioned THEN table[t].chains + 1
                                ELSE table[t].chains]
    BY <1>1, <1>3 DEF Insert, TypeOK
  <2>2. table[t].seeds = 0 /\ table[t].chains = 0
    BY <1>1, <1>3 DEF Untouched
  <2> QED BY <2>1, <2>2 DEF Seeded
<1>4. ASSUME NEW t \in Tables PROVE (Untouched(t) \/ Seeded(t))'
  <2>1. CASE Seeded(t)
    BY <1>2, <2>1
  <2>2. CASE table'[t] = table[t]
    BY <2>2 DEF SeedInv, Seeded, Untouched
  <2>3. ASSUME NEW i \in Instances, Insert(i), t = Current(i) PROVE Seeded(t)'
    BY <1>3, <2>3
  <2>4. CASE Serving # {}
    BY <1>2, <2>4, ServingIsPast DEF SeedInv
  <2> QED BY <2>2, <2>3, <2>4, TableChanges
<1>5. ASSUME NEW j \in Instances, NEW t \in Tables, Past(j, t)' PROVE Seeded(t)'
  <2>1. CASE Past(j, t)
    BY <1>2, <2>1 DEF SeedInv
  <2>2. ASSUME NEW i \in Instances, Insert(i), t = Current(i) PROVE Seeded(t)'
    BY <1>3, <2>2
  <2>3. CASE table[t].live
    BY <1>2, <2>3 DEF SeedInv, Untouched
  <2> QED BY <1>5, <2>1, <2>2, <2>3, Passing
<1> QED BY <1>4, <1>5 DEF SeedInv

(* However many instances start together and wherever they end: who serves *)
(* finds every table seeded once, with the revisions of its rows.          *)
THEOREM SeededBeforeServing == Spec => []ServesSeeded
<1>1. SeedInv => ServesSeeded
  BY ServingIsPast DEF SeedInv, ServesSeeded, Seeded
<1> QED BY <1>1, TypeInit, TypeStep, SeedInit, SeedStep, PTL DEF Spec

(***************************************************************************)
(* Emptied.                                                                *)
(***************************************************************************)
TrappedAt(t) == Emptied(t) /\ \A i \in Instances : ~Past(i, t)

LEMMA NobodyServes ==
  ASSUME NEW t \in Tables, TrappedAt(t)
  PROVE  Serving = {}
BY ServingIsPast DEF TrappedAt

LEMMA TrapStep ==
  ASSUME TypeOK, [Next]_vars, NEW t \in Tables, TrappedAt(t)
  PROVE  TrappedAt(t)'
<1>1. ~table[t].live /\ table[t].seeds > 0 /\ Serving = {}
  BY NobodyServes DEF TrappedAt, Emptied
<1>2. ASSUME NEW i \in Instances, Insert(i) PROVE t # Current(i)
  BY <1>1, <1>2 DEF Insert, CodesAreFree, TypeOK
<1>3. Emptied(t)'
  BY <1>1, <1>2, TableChanges DEF Emptied
<1>4. ASSUME NEW j \in Instances, Past(j, t)' PROVE FALSE
  BY <1>1, <1>2, <1>4, Passing DEF TrappedAt
<1> QED BY <1>3, <1>4 DEF TrappedAt

(* The seed of an emptied table collides with the removed rows: no restart *)
(* of any instance brings the service back.                                *)
THEOREM EmptiedIsDead == Spec => DeadOnceEmptied
<1>1. Trapped <=> \E t \in Tables : TrappedAt(t)
  BY DEF Trapped, TrappedAt
<1>2. Trapped' <=> \E t \in Tables : TrappedAt(t)'
  BY DEF Trapped, TrappedAt
<1>3. TypeOK /\ [Next]_vars => (Trapped => Trapped' /\ Serving' = {})
  <2> SUFFICES ASSUME TypeOK, [Next]_vars, Trapped PROVE Trapped' /\ Serving' = {}
    OBVIOUS
  <2>1. PICK t \in Tables : TrappedAt(t)
    BY <1>1
  <2>2. TrappedAt(t)'
    BY <2>1, TrapStep
  <2>3. ASSUME NEW i \in Instances PROVE proc'[i].pc # "serving"
    BY <2>2 DEF TrappedAt, Past
  <2> QED BY <1>2, <2>2, <2>3 DEF Serving
<1>4. TypeOK /\ [Next]_vars => [Trapped => Trapped' /\ Serving' = {}]_vars
  BY <1>3
<1> QED BY <1>4, StartupTypes, PTL DEF Spec, DeadOnceEmptied
=============================================================================
