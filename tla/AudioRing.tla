----------------------------- MODULE AudioRing -----------------------------
(***************************************************************************)
(* The way of the sound from the emulation thread to the audio callback of *)
(* the host: a lock-free ring of single samples.  One side pushes the      *)
(* left and right samples of a frame one by one and gives up when the ring *)
(* is full, the other pops a left and a right sample and plays silence     *)
(* where the ring is empty.                                                *)
(***************************************************************************)
EXTENDS Integers, Sequences

CONSTANTS
    Capacity,       \* AUDIO_RING_SAMPLES, an even number
    BatchFrames,    \* bound: stereo frames the machine makes per video frame
    MaxFrames       \* bound: stereo frames made

ASSUME AudioAssumption ==
    /\ Capacity \in Nat /\ Capacity % 2 = 0
    /\ {BatchFrames, MaxFrames} \subseteq Nat

VARIABLES
    ring,           \* samples queued: [frame, side]
    batch,          \* samples of `take_audio` not pushed yet
    made,           \* stereo frames made so far
    half,           \* the left sample popped, its right one not yet
    heard,          \* what the output played last, <<left, right>>
    slipped         \* history: one side of a frame was lost alone

audioVars == <<ring, batch, made, half, heard, slipped>>

Silence == [frame |-> 0, side |-> "any"]
Nothing == [frame |-> 0, side |-> "none"]

Samples(from, n) ==
    [i \in 1..(2 * n) |-> [frame |-> from + (i + 1) \div 2,
                           side |-> IF i % 2 = 1 THEN "left" ELSE "right"]]

\* A video frame has been run. While fast-forwarding its sound is dropped.
TakeAudio ==
    /\ batch = <<>>
    /\ \E n \in 1..BatchFrames, fastForward \in BOOLEAN :
          /\ made + n <= MaxFrames
          /\ made' = made + n
          /\ batch' = IF fastForward THEN <<>> ELSE Samples(made, n)
    /\ UNCHANGED <<ring, half, heard, slipped>>

\* Mutant: a full ring loses one sample and the rest is pushed.
PushSkips ==
    /\ batch # <<>>
    /\ batch' = Tail(batch)
    /\ ring' = IF Len(ring) < Capacity THEN Append(ring, Head(batch)) ELSE ring
    /\ UNCHANGED <<made, half, heard, slipped>>

\* One sample is pushed; when the ring is full the rest of the batch is dropped.
Push ==
    /\ batch # <<>>
    /\ IF Len(ring) < Capacity
       THEN /\ ring' = Append(ring, Head(batch))
            /\ batch' = Tail(batch)
            /\ UNCHANGED slipped
       ELSE /\ batch' = <<>>
            /\ slipped' = (slipped \/ Head(batch).side = "right")
            /\ UNCHANGED ring
    /\ UNCHANGED <<made, half, heard>>

Popped == IF ring = <<>> THEN Silence ELSE Head(ring)
AfterPop == IF ring = <<>> THEN ring ELSE Tail(ring)

\* `fill_audio`, for one frame of the output: left, then right. A muted output
\* drains the ring all the same.
PopLeft ==
    /\ half = Nothing
    /\ half' = Popped
    /\ ring' = AfterPop
    /\ UNCHANGED <<batch, made, heard, slipped>>

PopRight ==
    /\ half # Nothing
    /\ \E muted \in BOOLEAN :
          heard' = IF muted THEN <<Silence, Silence>> ELSE <<half, Popped>>
    /\ half' = Nothing
    /\ ring' = AfterPop
    /\ slipped' = (slipped \/ (half = Silence) # (Popped = Silence))
    /\ UNCHANGED <<batch, made>>

AudioInit ==
    /\ ring = <<>> /\ batch = <<>> /\ made = 0
    /\ half = Nothing /\ heard = <<Silence, Silence>> /\ slipped = FALSE

AudioNext == TakeAudio \/ Push \/ PopLeft \/ PopRight

AudioSpec == AudioInit /\ [][AudioNext]_audioVars

-----------------------------------------------------------------------------
(* Properties.                                                             *)

\* "Decoded audio (44.1 kHz interleaved stereo)": the left channel plays left
\* samples and the right channel right ones. A callback that finds the ring
\* empty for its left sample and not for its right one, or a ring that fills up
\* within a frame, swaps the channels, and nothing puts them right again.
ChannelsKept ==
    /\ heard[1].side \in {"left", "any"}
    /\ heard[2].side \in {"right", "any"}

\* Those two are the only causes, and as long as neither has happened both
\* samples played are of one frame, and frames play in the order they were made.
SwapNeedsSlip ==
    ~slipped => /\ ChannelsKept
                /\ heard[1].frame = heard[2].frame
                /\ ring # <<>> => \A i \in 1..2 : heard[i].frame <= ring[1].frame
=============================================================================
