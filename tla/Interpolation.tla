---------------------------- MODULE Interpolation ---------------------------
(***************************************************************************)
(* SnapshotBuffer of gbnet/src/interpolation.rs.  A snapshot is its        *)
(* timestamp and its state is the same number, so that the interpolated    *)
(* state is the moment of the server's time that is shown.                 *)
(*                                                                         *)
(* The server's snapshots arrive in any order; the application samples     *)
(* with a clock that does not go back, however far it is from the server's. *)
(* The delay is constant: set_playback_delay_ms() is left out, which moves *)
(* the display back when it makes the delay longer.                        *)
(***************************************************************************)
EXTENDS Integers, Sequences

CONSTANTS
  Timestamps,
  RenderTimes,
  PlaybackDelay,    \* playback_delay_ms
  BufferDepth       \* buffer_depth

ASSUME InterpolationAssumption ==
  /\ Timestamps \subseteq Int
  /\ RenderTimes \subseteq Int /\ 0 \in RenderTimes
  /\ PlaybackDelay \in Nat
  /\ BufferDepth \in Nat \ {0}

VARIABLES
  snapshot_buffer,
  render_time,
  shown          \* history: what was sampled last since reset(), in a set, or {}

interpolationVars == <<snapshot_buffer, render_time, shown>>

-----------------------------------------------------------------------------
OldestSnapshot == snapshot_buffer[1]
NewestSnapshot == snapshot_buffer[Len(snapshot_buffer)]

\* push() refuses what is not newer than the newest.
NewerOrRepeated(timestamp) == snapshot_buffer # <<>> => timestamp >= OldestSnapshot
Newer(timestamp) == snapshot_buffer # <<>> => timestamp > NewestSnapshot

\* The buffer keeps the latest 2 * buffer_depth.
Bounded(s) ==
  IF Len(s) > 2 * BufferDepth
  THEN SubSeq(s, Len(s) - 2 * BufferDepth + 1, Len(s))
  ELSE s

Push(timestamp) ==
  /\ Newer(timestamp)
  /\ snapshot_buffer' = Bounded(Append(snapshot_buffer, timestamp))
  /\ UNCHANGED <<render_time, shown>>

\* sample(): between two snapshots around the target, or the nearest of all.
Bracketed(target) ==
  \E i \in 1 .. Len(snapshot_buffer) - 1 :
    snapshot_buffer[i] <= target /\ target <= snapshot_buffer[i + 1]

Shown(target) ==
  IF Bracketed(target) THEN target
  ELSE IF target > NewestSnapshot THEN NewestSnapshot
  ELSE OldestSnapshot

Sample ==
  \E t \in RenderTimes :
    /\ t >= render_time
    /\ render_time' = t
    /\ shown' = IF Len(snapshot_buffer) < 2 THEN shown ELSE {Shown(t - PlaybackDelay)}
    /\ UNCHANGED snapshot_buffer

Reset ==
  /\ snapshot_buffer # <<>>
  /\ snapshot_buffer' = <<>>
  /\ shown' = {}
  /\ UNCHANGED render_time

InterpolationInit ==
  /\ snapshot_buffer = <<>>
  /\ render_time = 0
  /\ shown = {}

InterpolationNext ==
  \/ \E timestamp \in Timestamps : Push(timestamp)
  \/ Sample
  \/ Reset

-----------------------------------------------------------------------------
(* Properties *)

InterpolationTypeOK ==
  /\ snapshot_buffer \in Seq(Timestamps)
  /\ Len(snapshot_buffer) <= 2 * BufferDepth
  /\ render_time \in RenderTimes
  /\ \A t \in shown : t \in Int

\* What is shown never goes back in the server's time until the buffer is reset,
\* however late or repeated the snapshots, and whichever were dropped meanwhile.
NeverShownBackwards ==
  [][\A before \in shown, after \in shown' : after >= before]_interpolationVars
=============================================================================
