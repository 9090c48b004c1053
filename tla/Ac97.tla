-------------------------------- MODULE Ac97 --------------------------------
(***************************************************************************)
(* The AC97 audio driver (drivers/ac97.c) against the sound controller: a  *)
(* ring of buffer descriptors that ac97_play() fills and starts, that the  *)
(* controller plays from `civ` to `lvi` by DMA, and that the interrupt     *)
(* handler refills one descriptor at a time.                               *)
(*                                                                         *)
(* The handler runs with interrupts off, so only the controller moves      *)
(* between its steps; it may run between any two steps of ac97_play().     *)
(* The controller (hw_ actions and registers) is external: completing a    *)
(* descriptor sets BCIS; completing the one at lvi also sets LVBCI and     *)
(* halts the DMA, and a new lvi starts it again.                           *)
(***************************************************************************)
EXTENDS Integers, Sequences, FiniteSets

CONSTANTS
  NUM_BDL_ENTRIES,             \* descriptors in the ring, a power of two
  AC97_MAX_SAMPLES_PER_ENTRY,  \* even
  MaxAddr,                     \* the largest address the controller reaches
  Clips,                       \* clips to play: <<start, end>> byte addresses
  MaxPlays                     \* bound: calls of ac97_play() in a behaviour

(* What the properties assume of the constants.                            *)
ASSUME SoundAssumption ==
  /\ NUM_BDL_ENTRIES \in Nat \ {0}
  /\ AC97_MAX_SAMPLES_PER_ENTRY \in Nat \ {0}
  /\ AC97_MAX_SAMPLES_PER_ENTRY % 2 = 0
  /\ \A c \in Clips : c \in Nat \X Nat
  /\ MaxPlays \in Nat

Slot == 0 .. NUM_BDL_ENTRIES - 1
Descriptor == [addr : Nat, samples : 0 .. AC97_MAX_SAMPLES_PER_ENTRY]

VARIABLES
  ring_buffer,         \* the descriptors
  last_valid_index,
  bdl_entries_filled,
  audio_cur_pos,
  audio_data_end,
  pc,                  \* where ac97_play() stands
  clip,                \* its arguments
  plays,               \* calls so far
  handler,             \* where the interrupt handler stands
  status,              \* the status bits it has read
  latched,             \* an interrupt the CPU has yet to take
  civ, lvi,            \* controller: current and last valid index
  run, halted,         \* controller: run bit, DMA halted bit
  sr,                  \* controller: interrupt status bits that are set
  sounding,            \* history: the clip the ring was last reset for
  heard,               \* history: address up to which it has been played
  dead                 \* hcf() was called

driver_vars == <<ring_buffer, last_valid_index, bdl_entries_filled,
                 audio_cur_pos, audio_data_end>>
play_vars == <<pc, clip, plays>>
irq_vars == <<handler, status>>
hw_vars == <<latched, civ, lvi, run, halted, sr, sounding, heard>>
snd_vars == <<driver_vars, play_vars, irq_vars, hw_vars, dead>>

StatusBits == {"BCIS", "LVBCI", "FIFOE"}

SndTypeOK ==
  /\ ring_buffer \in [Slot -> Descriptor]
  /\ last_valid_index \in Slot
  /\ bdl_entries_filled \in 0 .. NUM_BDL_ENTRIES
  /\ audio_cur_pos \in Nat /\ audio_data_end \in Nat
  /\ pc \in {"idle", "reset", "clear", "fill", "lvi", "run"}
  /\ plays \in 0 .. MaxPlays
  /\ handler \in {"none", "ack", "refill", "post"}
  /\ status \subseteq StatusBits
  /\ civ \in Slot /\ lvi \in Slot
  /\ run \in BOOLEAN /\ halted \in BOOLEAN /\ latched \in BOOLEAN
  /\ sr \subseteq StatusBits
  /\ heard \in Nat
  /\ dead \in BOOLEAN

SndInit ==
  /\ ring_buffer = [i \in Slot |-> [addr |-> 0, samples |-> 0]]
  /\ last_valid_index = 0 /\ bdl_entries_filled = 0
  /\ audio_cur_pos = 0 /\ audio_data_end = 0
  /\ pc = "idle" /\ clip = <<0, 0>> /\ plays = 0
  /\ handler = "none" /\ status = {}
  /\ civ = 0 /\ lvi = 0 /\ run = FALSE /\ halted = TRUE /\ sr = {}
  /\ latched = FALSE /\ sounding = <<0, 0>> /\ heard = 0
  /\ dead = FALSE

-----------------------------------------------------------------------------
(* Helpers                                                                 *)

next_slot(i) == (i + 1) % NUM_BDL_ENTRIES

(* Samples of 16 bits, an even number of them.                             *)
samples_in_chunk(pos, end) ==
  IF end - pos >= AC97_MAX_SAMPLES_PER_ENTRY * 2
  THEN AC97_MAX_SAMPLES_PER_ENTRY
  ELSE ((end - pos) \div 4) * 2

Chunk(pos, end) == [addr |-> pos, samples |-> samples_in_chunk(pos, end)]

(* What the setup loop leaves behind: how many chunks it filled (up to the *)
(* size of the ring, none without samples), and the position after them.   *)
ChunkStart(start, i) == start + i * AC97_MAX_SAMPLES_PER_ENTRY * 2

entries_filled(start, end) ==
  Cardinality({i \in Slot : /\ ChunkStart(start, i) < end
                            /\ samples_in_chunk(ChunkStart(start, i), end) > 0})

position_after(start, end) ==
  LET n == entries_filled(start, end)
      last == ChunkStart(start, n - 1)
  IN  IF n = 0 THEN start ELSE last + 2 * samples_in_chunk(last, end)

data_end(start, end) == end

-----------------------------------------------------------------------------
(* ac97_play(), when no handler is running.                                *)

Process(from, to) ==
  /\ ~dead /\ handler = "none"
  /\ pc = from
  /\ pc' = to

(* An empty clip is refused; one out of the controller's reach stops the   *)
(* machine.                                                                *)
ac97_play(c) ==
  /\ plays < MaxPlays
  /\ LET empty == c[2] <= c[1]
         unreachable == c[1] > MaxAddr \/ c[2] > MaxAddr
     IN  /\ Process("idle", IF empty \/ unreachable THEN "idle" ELSE "reset")
         /\ dead' = (~empty /\ unreachable)
  /\ clip' = c
  /\ plays' = plays + 1
  /\ UNCHANGED <<driver_vars, irq_vars, hw_vars>>

(* ac97_setup_bdl(): reset the channel and wait until the DMA has halted   *)
setup_reset ==
  /\ Process("reset", "clear")
  /\ civ' = 0 /\ lvi' = 0 /\ run' = FALSE /\ halted' = TRUE /\ sr' = {}
  /\ sounding' = clip /\ heard' = clip[1]
  /\ UNCHANGED <<driver_vars, clip, plays, irq_vars, latched, dead>>

(* clear the status bits                                                   *)
setup_clear ==
  /\ Process("clear", "fill")
  /\ sr' = {}
  /\ UNCHANGED <<driver_vars, clip, plays, irq_vars, latched, civ, lvi, run,
                 halted, sounding, heard, dead>>

(* and fill the ring from its beginning.                                   *)
setup_fill ==
  LET start == clip[1]
      end == clip[2]
      n == entries_filled(start, end)
  IN  /\ Process("fill", "lvi")
      /\ ring_buffer' =
           [i \in Slot |-> IF i < n THEN Chunk(ChunkStart(start, i), end)
                           ELSE ring_buffer[i]]
      /\ bdl_entries_filled' = n
      /\ audio_cur_pos' = position_after(start, end)
      /\ audio_data_end' = data_end(start, end)
      /\ UNCHANGED <<last_valid_index, clip, plays, irq_vars, hw_vars, dead>>

(* ac97_start_playback(): nothing to play is an error; otherwise write LVI *)
start_lvi ==
  /\ Process("lvi", IF bdl_entries_filled = 0 THEN "idle" ELSE "run")
  /\ IF bdl_entries_filled = 0
     THEN UNCHANGED <<last_valid_index, lvi>>
     ELSE /\ last_valid_index' = bdl_entries_filled - 1
          /\ lvi' = bdl_entries_filled - 1
  /\ UNCHANGED <<ring_buffer, bdl_entries_filled, audio_cur_pos,
                 audio_data_end, clip, plays, irq_vars, latched, civ, run,
                 halted, sr, sounding, heard, dead>>

(* and set the run bit.                                                    *)
start_run ==
  /\ Process("run", "idle")
  /\ run' = TRUE
  /\ halted' = FALSE
  /\ UNCHANGED <<driver_vars, clip, plays, irq_vars, latched, civ, lvi, sr,
                 sounding, heard, dead>>

-----------------------------------------------------------------------------
(* ac97_irq_handler()                                                      *)

(* Read the status; a FIFO error stops the machine ...                     *)
irq_read ==
  /\ ~dead /\ handler = "none" /\ (latched \/ sr # {})
  /\ latched' = FALSE
  /\ status' = sr
  /\ dead' = ("FIFOE" \in sr)
  /\ handler' = "ack"
  /\ UNCHANGED <<driver_vars, play_vars, civ, lvi, run, halted, sr, sounding,
                 heard>>

Refills == "BCIS" \in status /\ audio_cur_pos < audio_data_end

(* Mutant: acknowledge every bit, seen or not.                             *)
irq_ack_everything ==
  /\ ~dead /\ handler = "ack"
  /\ sr' = {}
  /\ handler' = IF Refills THEN "refill" ELSE "none"
  /\ UNCHANGED <<driver_vars, play_vars, status, latched, civ, lvi, run, halted,
                 sounding, heard, dead>>

(* ... acknowledge the bits read; only a completed buffer, with data left, *)
(* is followed by a refill ...                                             *)
irq_ack ==
  /\ ~dead /\ handler = "ack"
  /\ sr' = sr \ status
  /\ handler' = IF Refills THEN "refill" ELSE "none"
  /\ UNCHANGED <<driver_vars, play_vars, status, latched, civ, lvi, run, halted,
                 sounding, heard, dead>>

(* ... of the slot after the last valid one ...                            *)
irq_refill ==
  LET slot == next_slot(last_valid_index)
      chunk == Chunk(audio_cur_pos, audio_data_end)
  IN  /\ ~dead /\ handler = "refill"
      /\ ring_buffer' = [ring_buffer EXCEPT ![slot] = chunk]
      /\ audio_cur_pos' = audio_cur_pos + 2 * chunk.samples
      /\ last_valid_index' = slot
      /\ handler' = "post"
      /\ UNCHANGED <<bdl_entries_filled, audio_data_end, play_vars, status,
                     hw_vars, dead>>

(* ... which LVI then makes valid, restarting a DMA that has run dry.      *)
irq_post ==
  /\ ~dead /\ handler = "post"
  /\ lvi' = last_valid_index
  /\ IF run /\ halted
     THEN halted' = FALSE /\ civ' = next_slot(civ)
     ELSE UNCHANGED <<halted, civ>>
  /\ handler' = "none"
  /\ UNCHANGED <<driver_vars, play_vars, status, latched, run, sr, sounding,
                 heard, dead>>

-----------------------------------------------------------------------------
(* The controller                                                          *)

(* The buffer at civ has been played.  Whether an empty one is reported as *)
(* completed is up to the hardware.                                        *)
hw_complete ==
  /\ ~dead /\ run /\ ~halted
  /\ heard' = ring_buffer[civ].addr + 2 * ring_buffer[civ].samples
  /\ \E reported \in {TRUE} \cup {x \in {FALSE} : ring_buffer[civ].samples = 0} :
       sr' = sr \cup {b \in {"BCIS"} : reported}
                \cup {b \in {"LVBCI"} : civ = lvi}
  /\ latched' = (latched \/ sr' # {})
  /\ IF civ = lvi
     THEN halted' = TRUE /\ UNCHANGED civ
     ELSE civ' = next_slot(civ) /\ UNCHANGED halted
  /\ UNCHANGED <<driver_vars, play_vars, irq_vars, lvi, run, sounding, dead>>

hw_fifo_error ==
  /\ ~dead /\ run /\ ~halted
  /\ sr' = sr \cup {"FIFOE"}
  /\ latched' = TRUE
  /\ UNCHANGED <<driver_vars, play_vars, irq_vars, civ, lvi, run, halted,
                 sounding, heard, dead>>

silent ==
  /\ dead \/ (pc = "idle" /\ plays = MaxPlays /\ halted /\ sr = {} /\ ~latched /\ handler = "none")
  /\ UNCHANGED snd_vars

Play == setup_reset \/ setup_clear \/ setup_fill \/ start_lvi \/ start_run
Irq == irq_read \/ irq_ack \/ irq_refill \/ irq_post

SndNext ==
  \/ \E c \in Clips : ac97_play(c)
  \/ Play
  \/ Irq
  \/ hw_complete
  \/ hw_fifo_error
  \/ silent

SndSpec == SndInit /\ [][SndNext]_snd_vars

(* The CPU executes ac97_play() and takes interrupts (the interrupt is     *)
(* level-triggered, so it stays pending), and the controller keeps playing *)
(* while it runs.  Interrupts can take any time to be served.              *)
FairSpec == SndSpec /\ WF_snd_vars(Play) /\ WF_snd_vars(Irq) /\ WF_snd_vars(hw_complete)

-----------------------------------------------------------------------------
(* Properties                                                              *)

(* The descriptors the controller is yet to play.                          *)
Queue ==
  IF ~run \/ halted THEN << >>
  ELSE [k \in 1 .. ((lvi - civ) % NUM_BDL_ENTRIES) + 1 |->
          ring_buffer[(civ + k - 1) % NUM_BDL_ENTRIES]]

End(e) == e.addr + 2 * e.samples

(* However late interrupts are served and however completions run          *)
(* together, the descriptors ahead of the controller are consecutive       *)
(* pieces of the clip the ring was set up for, starting where it has       *)
(* played to: nothing is skipped, played twice, left over from an earlier  *)
(* clip or taken from beyond the end of the clip, where "the DMA will be   *)
(* handed garbage memory" (ac97.c:142-144, 325-337).                       *)
PlaysTheClip ==
  /\ Queue # << >> => Queue[1].addr = heard
  /\ \A k \in 1 .. Len(Queue) :
       /\ sounding[1] <= Queue[k].addr /\ End(Queue[k]) <= sounding[2]
       /\ k > 1 => Queue[k].addr = End(Queue[k - 1])

(* The clip consists of whole frames: four bytes each.                     *)
WholeFrames == (sounding[2] - sounding[1]) % 4 = 0

(* With frames left, a controller that has run dry has a refill coming:    *)
(* the acknowledgement of ac97.c:299-301 never wipes out a completion      *)
(* without a refill after it.                                              *)
DryIsRefilled ==
  (WholeFrames /\ ~dead /\ run /\ halted /\ audio_cur_pos < audio_data_end) =>
    \/ "BCIS" \in sr
    \/ handler \in {"ack", "refill"} /\ "BCIS" \in status
    \/ handler = "post"

(* ac97.c:319-320: out of data, the DMA halts.  The clip started last, if  *)
(* of whole frames, is played to its end, after which the controller is    *)
(* silent for good, unless the machine was stopped.                        *)
PlaysOut ==
  <>[](dead \/ ~run \/ ~WholeFrames \/ (halted /\ heard = sounding[2]))

(* The descriptors ahead of the sound controller are consecutive pieces of *)
(* the clip, and a controller that has run dry has a refill coming.        *)
SoundSupplied == SndTypeOK /\ PlaysTheClip /\ DryIsRefilled
=============================================================================
