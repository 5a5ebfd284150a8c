----------------------------- MODULE RequestStack -----------------------------
(***************************************************************************)
(* The pool of request objects of a channel (RequestStack.hpp): a stack of *)
(* free ones and a stack of pushed ones that wait for a submit.  An object *)
(* on neither is with the user or outstanding.                             *)
(***************************************************************************)
EXTENDS Integers, Sequences

CONSTANT Depth     (* iodepth: the objects of the pool                     *)

ASSUME DepthAssumption == Depth \in Nat \ {0}

VARIABLES
  freeStack,       (* free_stack[0 .. free-1], the top is the last         *)
  submitStack      (* submit_stack[0 .. pushed-1]                          *)

stackVars == <<freeStack, submitStack>>

Slot == 1 .. Depth

Top(stack)    == stack[Len(stack)]
Popped(stack) == SubSeq(stack, 1, Len(stack) - 1)

(* The order in which a loop of pops empties a stack.                      *)
PopOrder(stack) == [i \in 1 .. Len(stack) |-> stack[Len(stack) + 1 - i]]

StackInit ==
  /\ freeStack = [i \in Slot |-> i]
  /\ submitStack = <<>>

(* A free object is taken and pushed (popFromFreeStack, pushToSubmitStack). *)
FreeToSubmit ==
  /\ freeStack # <<>>
  /\ freeStack' = Popped(freeStack)
  /\ submitStack' = Append(submitStack, Top(freeStack))

(* All pushed objects become outstanding (popFromSubmitStack until empty). *)
SubmitToOutstanding ==
  /\ submitStack' = <<>>
  /\ UNCHANGED freeStack

(* Faulty: the object returned is the one last freed.                      *)
ReturnToFreeListStale(s) ==
  /\ freeStack' = Append(freeStack, IF freeStack = <<>> THEN s ELSE Top(freeStack))
  /\ UNCHANGED submitStack

ReturnToFreeList(s) ==
  /\ freeStack' = Append(freeStack, s)
  /\ UNCHANGED submitStack

=============================================================================
