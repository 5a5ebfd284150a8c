------------------------------- MODULE SimBench -------------------------------
(***************************************************************************)
(* The simulator's benchmark (runBench in sim/sim.cpp) driving a greedy    *)
(* collector: the logical space is filled sequentially, a load of one      *)
(* device of random writes follows, then repetitions of writesPerRep       *)
(* random writes, with the write counters the write amplification is       *)
(* computed from.  The access pattern is any page; the wall clock, the     *)
(* CSV log and its header are left out.                                    *)
(***************************************************************************)
EXTENDS GreedyGC

CONSTANTS
  InitLoad,      (* the --load option                                      *)
  WritesPerRep,  (* logicalPages / printEverySSDWrite                      *)
  NumReps        (* totalWrites / writesPerRep                             *)

LogicalPages  == Cardinality(Page)
PhysicalPages == BlockCount * PagesPerBlock

ASSUME BenchAssumption ==
  /\ Page = 0 .. LogicalPages - 1
  /\ InitLoad \in BOOLEAN
  /\ WritesPerRep \in Nat \ {0}
  /\ NumReps \in Nat

VARIABLES
  stage,          (* "fill", "load", "bench" or "done"                     *)
  written,        (* writePage calls of the stage or repetition completed  *)
  rep,            (* repetitions completed                                 *)
  physWrites,     (* pages programmed since the last reset (_physWrites)   *)
  cumulativePhys, (* cumulativePhysWrites                                  *)
  cumulativeLog   (* cumulativeLogWrites                                   *)

benchVars == <<stage, written, rep, physWrites, cumulativePhys, cumulativeLog>>
allVars == <<vars, benchVars>>

BenchInit ==
  /\ Init
  /\ stage = "fill"
  /\ written = 0
  /\ rep = 0
  /\ physWrites = 0
  /\ cumulativePhys = 0
  /\ cumulativeLog = 0

(* Faulty: the fill stops one page early.                                  *)
TargetShort == CASE stage = "fill"  -> LogicalPages - 1
                 [] stage = "load"  -> PhysicalPages
                 [] stage = "bench" -> WritesPerRep

(* How many writePage calls the stage makes.                               *)
Target == CASE stage = "fill"  -> LogicalPages
            [] stage = "load"  -> PhysicalPages
            [] stage = "bench" -> WritesPerRep

(* The page of the next call: in order while filling, then any page.       *)
NextPage == IF stage = "fill" THEN {written} ELSE Page

(* A call completes: one page was programmed on the host's behalf.         *)
Completed ==
  /\ written' = written + 1
  /\ physWrites' = physWrites + 1
  /\ cumulativeLog' = cumulativeLog + (IF stage = "bench" THEN 1 ELSE 0)
  /\ UNCHANGED <<stage, rep, cumulativePhys>>

BenchWrite ==
  /\ stage # "done"
  /\ written < Target
  /\ \E x \in NextPage :
       \/ (WriteCurrent(x) \/ WriteNext(x)) /\ Completed
       \/ StartGC(x) /\ UNCHANGED benchVars

BenchResume == ResumeWrite /\ Completed

(* Garbage collection programs a page for every page it relocates.         *)
Relocated(n) ==
  /\ physWrites' = physWrites + n
  /\ UNCHANGED <<stage, written, rep, cumulativePhys, cumulativeLog>>

BenchCollect ==
  \/ CollectGreedy /\ Relocated(Cardinality(Live(singleGreedy)))
  \/ OpenGCBlock /\ Relocated(Cardinality(Live(singleGreedy)))
  \/ MoveVictim /\ Relocated(Cardinality(Moved(singleGreedy, currentGCBlock)))
  \/ VictimBecomesGCBlock /\ Relocated(Cardinality(Live(victim)))
  \/ (KeepGCBlock \/ EraseVictim) /\ UNCHANGED benchVars

(* A stage is over; the counters restart when the repetitions begin.       *)
StageOver ==
  /\ stage # "done"
  /\ phase = "idle"
  /\ written = Target

(* Faulty: the physical counter is not reset before the repetitions.       *)
StartBenchKeepsCounter ==
  /\ stage' = IF NumReps = 0 THEN "done" ELSE "bench"
  /\ UNCHANGED physWrites

StartBench ==
  /\ stage' = IF NumReps = 0 THEN "done" ELSE "bench"
  /\ physWrites' = 0

EndFill ==
  /\ stage = "fill"
  /\ StageOver
  /\ written' = 0
  /\ IF InitLoad THEN stage' = "load" /\ UNCHANGED physWrites ELSE StartBench
  /\ UNCHANGED <<vars, rep, cumulativePhys, cumulativeLog>>

EndLoad ==
  /\ stage = "load"
  /\ StageOver
  /\ written' = 0
  /\ StartBench
  /\ UNCHANGED <<vars, rep, cumulativePhys, cumulativeLog>>

EndRep ==
  /\ stage = "bench"
  /\ StageOver
  /\ written' = 0
  /\ rep' = rep + 1
  /\ cumulativePhys' = cumulativePhys + physWrites
  /\ physWrites' = 0
  /\ stage' = IF rep + 1 = NumReps THEN "done" ELSE "bench"
  /\ UNCHANGED <<vars, cumulativeLog>>

Finished == stage = "done" /\ UNCHANGED allVars

BenchStep ==
  BenchWrite \/ BenchResume \/ BenchCollect \/ EndFill \/ EndLoad \/ EndRep

BenchNext == BenchStep \/ Finished

BenchSpec == BenchInit /\ [][BenchNext]_allVars /\ WF_allVars(BenchStep)

-----------------------------------------------------------------------------
(* The comment on the fill: it "guarantees ssd is full".  From the end of  *)
(* the fill on, every logical page is stored, whatever is collected.       *)
FillIsComplete ==
  stage # "fill" => \A x \in Page : Cardinality(Copies(x)) = 1

(* The write amplification a repetition can report.  A greedy collection   *)
(* relocates at most floor(L / B) pages and wins room for as many host     *)
(* writes as that leaves of a block, so collections are at least that many *)
(* writes apart and the relocations they add are bounded by the host       *)
(* writes of the repetition.                                               *)
AmplificationBounded ==
  LET most == LogicalPages \div BlockCount
      gain == PagesPerBlock - most
  IN  policy = "greedy" /\ stage = "bench" =>
        (physWrites - written) * gain <= most * (written + gain)

(* The benchmark runs to its end.                                          *)
BenchTerminates == <>(stage = "done")
=============================================================================
