------------------------------- MODULE Stores -------------------------------
(***************************************************************************)
(* pkg/store: MemoryStore and PostgresStore behind the interface Store.    *)
(* Every call is made on both, and the module says for which calls the two *)
(* come apart: `apart' names the reason of the first such call, after      *)
(* which the comparison ends.                                              *)
(*                                                                         *)
(* PostgreSQL is external: a statement takes effect as a whole or fails    *)
(* when a row it needs is missing or a row it adds exists (PRIMARY KEY,    *)
(* UNIQUE, REFERENCES of the schema).  created_at is the order of creation.*)
(***************************************************************************)
EXTENDS Naturals, Sequences, FiniteSets

CONSTANTS
  DagIDs,      \* numbers, in the order of the identifiers
  RunIDs,
  InstIDs,     \* numbers, in the order of their task identifiers
  IdemKeys,    \* idempotency keys
  Tags,        \* the values of the tag or owner of a DAG
  Statuses,
  MaxLimit     \* the largest limit or offset a caller asks for

ASSUME StoresAssumption ==
  /\ DagIDs \subseteq Nat \ {0} /\ InstIDs \subseteq Nat /\ MaxLimit \in Nat
  /\ "nokey" \notin IdemKeys

NoKey == "nokey"
NoTag == "notag"
AnyStatus == "any"
AnyDAG == 0

\* A DAG: its tag, and whether some task has an integer in its Config.
Specs == [tag : Tags, ints : BOOLEAN]
RunRows == [dag : DagIDs, status : Statuses]
\* Times are left out; queued_at is one PostgreSQL does not update.
InstRows == [run : RunIDs, status : Statuses, key : IdemKeys \cup {NoKey}]

VARIABLES
  mem,    \* the maps of MemoryStore, and the order of created_at
  pg,     \* the tables of PostgreSQL, likewise
  said,   \* whether the last write succeeded on each
  apart   \* why the two may differ from now on, or "no"

storesVars == <<mem, pg, said, apart>>

NoRows == [x \in {} |-> x]

StoresInit ==
  /\ mem = [dags |-> NoRows, runs |-> NoRows, order |-> <<>>,
            insts |-> NoRows, idx |-> NoRows]
  /\ pg = [dags |-> NoRows, runs |-> NoRows, order |-> <<>>, insts |-> NoRows]
  /\ said = [mem |-> TRUE, pg |-> TRUE]
  /\ apart = "no"

Has(f, k) == k \in DOMAIN f
Put(f, k, v) == [x \in DOMAIN f \cup {k} |-> IF x = k THEN v ELSE f[x]]
Without(f, k) == [x \in DOMAIN f \ {k} |-> f[x]]

\* What a write does to a store: whether it succeeds, and the store then.
Result(ok, new, old) == [ok |-> ok, store |-> IF ok THEN new ELSE old]

\* The same call on both; `why' is what sets them apart.
Both(m, p, why) ==
  /\ apart = "no"
  /\ mem' = m.store /\ pg' = p.store
  /\ said' = [mem |-> m.ok, pg |-> p.ok]
  /\ apart' = why
-----------------------------------------------------------------------------
(* MemoryStore: maps that know nothing of each other *)

MemSaveDAG(d, spec) == Result(TRUE, [mem EXCEPT !.dags = Put(@, d, spec)], mem)

MemDeleteDAG(d) ==
  Result(Has(mem.dags, d), [mem EXCEPT !.dags = Without(@, d)], mem)

MemCreateRun(r, row) ==
  Result(~Has(mem.runs, r),
         [mem EXCEPT !.runs = Put(@, r, row), !.order = <<r>> \o @], mem)

MemUpdateRun(r, row) ==
  Result(Has(mem.runs, r), [mem EXCEPT !.runs = Put(@, r, row)], mem)

\* An empty key is not indexed; a key in use now leads to the new instance.
MemCreateTaskInstance(i, row) ==
  Result(~Has(mem.insts, i),
         [mem EXCEPT !.insts = Put(@, i, row),
                     !.idx = IF row.key = NoKey THEN @ ELSE Put(@, row.key, i)],
         mem)

MemUpdateTaskInstance(i, row) ==
  Result(Has(mem.insts, i), [mem EXCEPT !.insts = Put(@, i, row)], mem)
-----------------------------------------------------------------------------
(* PostgresStore: tables with constraints.  An update of a missing row     *)
(* succeeds, and writes the columns of its SET clause only.                *)

\* json.Marshal and Unmarshal give integers of a Config back as floats.
Marshalled(spec) == [spec EXCEPT !.ints = FALSE]

PgSaveDAG(d, spec) ==
  Result(TRUE, [pg EXCEPT !.dags = Put(@, d, Marshalled(spec))], pg)

InUse(d) == \E r \in DOMAIN pg.runs : pg.runs[r].dag = d

PgDeleteDAG(d) ==
  Result(Has(pg.dags, d) /\ ~InUse(d), [pg EXCEPT !.dags = Without(@, d)], pg)

PgCreateRun(r, row) ==
  Result(~Has(pg.runs, r) /\ Has(pg.dags, row.dag),
         [pg EXCEPT !.runs = Put(@, r, row), !.order = <<r>> \o @], pg)

PgUpdateRun(r, row) ==
  Result(TRUE, IF Has(pg.runs, r)
               THEN [pg EXCEPT !.runs[r].status = row.status] ELSE pg, pg)

\* The UNIQUE column takes every key once, the empty one too.
Free(key) == \A i \in DOMAIN pg.insts : pg.insts[i].key # key

PgCreateTaskInstance(i, row) ==
  Result(~Has(pg.insts, i) /\ Free(row.key) /\ Has(pg.runs, row.run),
         [pg EXCEPT !.insts = Put(@, i, row)], pg)

PgUpdateTaskInstance(i, row) ==
  Result(TRUE, IF Has(pg.insts, i)
               THEN [pg EXCEPT !.insts[i].status = row.status] ELSE pg, pg)
-----------------------------------------------------------------------------
(* Writes *)

SaveDAG(d, spec) == Both(MemSaveDAG(d, spec), PgSaveDAG(d, spec), "no")

DeleteDAG(d) ==
  Both(MemDeleteDAG(d), PgDeleteDAG(d),
       IF Has(pg.dags, d) /\ InUse(d) THEN "DAG in use deleted" ELSE "no")

CreateRun(r, row) ==
  Both(MemCreateRun(r, row), PgCreateRun(r, row),
       IF ~Has(pg.runs, r) /\ ~Has(pg.dags, row.dag)
       THEN "run of an unsaved DAG" ELSE "no")

UpdateRun(r, row) ==
  Both(MemUpdateRun(r, row), PgUpdateRun(r, row),
       CASE ~Has(pg.runs, r) -> "missing run updated"
         [] Has(pg.runs, r) /\ pg.runs[r].dag # row.dag -> "column not updated"
         [] OTHER -> "no")

CreateTaskInstance(i, row) ==
  Both(MemCreateTaskInstance(i, row), PgCreateTaskInstance(i, row),
       CASE Has(pg.insts, i) -> "no"
         [] ~Free(row.key) -> "key used twice"
         [] ~Has(pg.runs, row.run) -> "instance of no run"
         [] OTHER -> "no")

UpdateTaskInstance(i, row) ==
  Both(MemUpdateTaskInstance(i, row), PgUpdateTaskInstance(i, row),
       CASE ~Has(pg.insts, i) -> "missing instance updated"
         [] Has(pg.insts, i)
            /\ <<pg.insts[i].run, pg.insts[i].key>> # <<row.run, row.key>> ->
              "column not updated"
         [] OTHER -> "no")
-----------------------------------------------------------------------------
(* Reads: sequences of rows or IDs, <<>> where the code returns an error   *)

At(f, k) == IF Has(f, k) THEN <<f[k]>> ELSE <<>>

UpTo(s, limit) ==
  IF limit > 0 /\ Len(s) > limit THEN SubSeq(s, 1, limit) ELSE s

MemGetDAG(d) == At(mem.dags, d)
PgGetDAG(d) == At(pg.dags, d)
MemGetRun(r) == At(mem.runs, r)
PgGetRun(r) == At(pg.runs, r)
MemGetTaskInstance(i) == At(mem.insts, i)
PgGetTaskInstance(i) == At(pg.insts, i)

\* The elements of a set of numbers, each at the place after the smaller ones.
Sorted(S) ==
  [n \in 1..Cardinality(S) |->
     CHOOSE x \in S : Cardinality({y \in S : y < x}) = n - 1]

\* ListDAGs in the order of the IDs; only MemoryStore filters by tag.
MemListDAGs(tag, limit) ==
  UpTo(Sorted({d \in DOMAIN mem.dags :
                 tag = NoTag \/ mem.dags[d].tag = tag}), limit)
PgListDAGs(tag, limit) == UpTo(Sorted(DOMAIN pg.dags), limit)

\* ListRuns, newest first.  MemoryStore ignores an offset past the end.
Matching(order, rows, d, status) ==
  SelectSeq(order, LAMBDA r : /\ d = AnyDAG \/ rows[r].dag = d
                              /\ status = AnyStatus \/ rows[r].status = status)

\* Mutant of MemListRuns: the limit is applied before the offset.
MemListRuns_LimitFirst(d, status, limit, offset) ==
  LET all == UpTo(Matching(mem.order, mem.runs, d, status), limit)
  IN  IF offset > 0 /\ offset < Len(all)
      THEN SubSeq(all, offset + 1, Len(all)) ELSE all

MemListRuns(d, status, limit, offset) ==
  LET all == Matching(mem.order, mem.runs, d, status)
  IN  UpTo(IF offset > 0 /\ offset < Len(all)
           THEN SubSeq(all, offset + 1, Len(all)) ELSE all, limit)

PgListRuns(d, status, limit, offset) ==
  LET all == Matching(pg.order, pg.runs, d, status)
  IN  UpTo(IF offset > 0 THEN SubSeq(all, offset + 1, Len(all)) ELSE all, limit)

Instances(f, S) ==
  LET s == Sorted(S) IN [n \in 1..Len(s) |-> <<s[n], f[s[n]]>>]

MemListTaskInstances(r) ==
  Instances(mem.insts, {i \in DOMAIN mem.insts : mem.insts[i].run = r})
PgListTaskInstances(r) ==
  Instances(pg.insts, {i \in DOMAIN pg.insts : pg.insts[i].run = r})

MemGetByKey(k) ==
  IF Has(mem.idx, k) /\ Has(mem.insts, mem.idx[k])
  THEN Instances(mem.insts, {mem.idx[k]}) ELSE <<>>
PgGetByKey(k) ==
  Instances(pg.insts, {i \in DOMAIN pg.insts : pg.insts[i].key = k})
-----------------------------------------------------------------------------
StoresNext ==
  \/ \E d \in DagIDs : DeleteDAG(d) \/ \E spec \in Specs : SaveDAG(d, spec)
  \/ \E r \in RunIDs, row \in RunRows : CreateRun(r, row) \/ UpdateRun(r, row)
  \/ \E i \in InstIDs, row \in InstRows :
       CreateTaskInstance(i, row) \/ UpdateTaskInstance(i, row)

StoresSpec == StoresInit /\ [][StoresNext]_storesVars
-----------------------------------------------------------------------------
(* Properties *)

\* Until a call sets them apart for one of the reasons named above, the two
\* stores cannot be told apart: writes succeed on both or on neither, and
\* every read gives the same on both, but for four that callers must not rely
\* on: integers in a Config, filters by tag, offsets past the end, and the
\* instance with an empty key.
StoresAgree ==
  apart = "no" =>
    /\ said.mem = said.pg
    /\ \A d \in DagIDs :
         /\ Has(mem.dags, d) = Has(pg.dags, d)
         /\ Has(mem.dags, d) /\ ~mem.dags[d].ints => MemGetDAG(d) = PgGetDAG(d)
    /\ \A n \in 0..MaxLimit : MemListDAGs(NoTag, n) = PgListDAGs(NoTag, n)
    /\ \A r \in RunIDs :
         /\ MemGetRun(r) = PgGetRun(r)
         /\ MemListTaskInstances(r) = PgListTaskInstances(r)
    /\ \A d \in DagIDs \cup {AnyDAG}, s \in Statuses \cup {AnyStatus},
          n \in 0..MaxLimit, o \in 0..MaxLimit :
         o = 0 \/ o < Len(Matching(pg.order, pg.runs, d, s)) =>
           MemListRuns(d, s, n, o) = PgListRuns(d, s, n, o)
    /\ \A i \in InstIDs : MemGetTaskInstance(i) = PgGetTaskInstance(i)
    /\ \A k \in IdemKeys : MemGetByKey(k) = PgGetByKey(k)
=============================================================================
