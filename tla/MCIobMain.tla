------------------------------- MODULE MCIobMain -------------------------------
(* Jobs for IobMain: some for its start, some for its threads.               *)
EXTENDS IobMain

Job(total, bs, iodepth, inits) ==
  [total |-> total, filled |-> 1, of |-> 1, bs |-> bs, iodepth |-> iodepth,
   inits |-> inits, threads |-> 1, ioSize |-> bs, runtime |-> 0, breaks |-> FALSE,
   rate |-> FALSE]

(* A device of two blocks, the same with requests of three quarters of an    *)
(* init request, one of three blocks and a rest, one too small.              *)
Starts ==
  {Job(8, 2, 2, {"yes", "auto", "check"}), Job(8, 3, 2, {"auto"}),
   Job(13, 4, 1, {"auto"}), [Job(7, 1, 1, {"no"}) EXCEPT !.of = 2]}

(* Two threads of a request, one of three; a limited rate; a limit of time;  *)
(* none at all, for an io_size that is too small and for breaks; nothing to  *)
(* do.                                                                       *)
Runs ==
  LET run == Job(4, 4, 1, {"disable"})
  IN {[run EXCEPT !.threads = 2, !.ioSize = 8],
      [run EXCEPT !.iodepth = 2, !.ioSize = 12],
      [run EXCEPT !.iodepth = 2, !.ioSize = 8, !.rate = TRUE],
      [run EXCEPT !.threads = 2, !.ioSize = 4, !.runtime = 1],
      [run EXCEPT !.ioSize = 3],
      [run EXCEPT !.iodepth = 2, !.breaks = TRUE, !.runtime = 2],
      [run EXCEPT !.ioSize = 0]}

MCJobs == Starts \cup Runs
=============================================================================
