--------------------------------- MODULE Raid ---------------------------------
(***************************************************************************)
(* The address arithmetic of RAID 0 (Raid.hpp): logical offsets are cut    *)
(* into chunks and the chunks dealt to the devices in turn.  The unit is   *)
(* the 4 KiB page of PageState.hpp; the code's chunk of 1 MiB is a         *)
(* multiple of it.                                                         *)
(***************************************************************************)
EXTENDS Integers

CONSTANTS
  DeviceCnt,   (* devices of the array                                     *)
  ChunkSize    (* pages of a chunk                                         *)

ASSUME RaidAssumption ==
  /\ DeviceCnt \in Nat \ {0}
  /\ ChunkSize \in Nat \ {0}

DeviceOf(offset) == (offset \div ChunkSize) % DeviceCnt

(* Faulty: the chunk's row is dropped.                                     *)
OffsetOfFirstRow(offset) == offset % ChunkSize

OffsetOf(offset) ==
  ((offset \div ChunkSize) \div DeviceCnt) * ChunkSize + (offset % ChunkSize)

(* A place of the array, and where the i-th page of a request that begins  *)
(* at a logical offset is transferred: the whole request goes to the       *)
(* device of its first page, contiguously.                                 *)
PlaceOf(offset)          == <<DeviceOf(offset), OffsetOf(offset)>>
TransferPlace(offset, i) == <<DeviceOf(offset), OffsetOf(offset) + i>>

=============================================================================
