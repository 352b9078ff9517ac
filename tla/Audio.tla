------------------------------- MODULE Audio -------------------------------
(***************************************************************************)
(* Sounds (OcAudioLib, OcAudio.c and OcAudioGenBeep.c).  A sound plays     *)
(* from a buffer of a provider while the caller goes on; the device calls  *)
(* back at TPL_NOTIFY when it is through, and whoever wants to play or     *)
(* stop next may wait for that.                                            *)
(*                                                                         *)
(* A call at TPL_APPLICATION is interrupted by the callback, and by calls  *)
(* at TPL_NOTIFY such as the clicks boot.efi plays for a password; those   *)
(* run to their end, and cannot wait.                                      *)
(***************************************************************************)
EXTENDS Naturals, FiniteSets

CONSTANTS
  SoundBuffer,   \* buffers of the provider
  NoBuffer

VARIABLES
  AudioIo,       \* a device and a provider are connected
  CurrentBuffer,
  PlaybackEvent, \* signalled
  soundDevice,   \* the buffer the device plays from, without the caller
  soundHeld,     \* history: buffers acquired from the provider and not released
  soundCall,     \* the call at TPL_APPLICATION in progress
  soundBetween   \* history: a call at TPL_NOTIFY once came into one

soundVars == <<AudioIo, CurrentBuffer, PlaybackEvent, soundDevice, soundHeld, soundCall,
               soundBetween>>

NoCall == [pc |-> "none", then |-> "none", buffer |-> NoBuffer, wait |-> FALSE,
           CheckEvent |-> TRUE]

SoundInit ==
  /\ AudioIo = FALSE /\ CurrentBuffer = NoBuffer /\ PlaybackEvent = FALSE
  /\ soundDevice = NoBuffer /\ soundHeld = {} /\ soundCall = NoCall /\ soundBetween = FALSE

\* InternalOcAudioConnect and InternalOcAudioSetProvider, while nothing plays.
Connect(found) ==
  /\ soundCall.pc = "none" /\ soundDevice = NoBuffer
  /\ AudioIo' = found
  /\ UNCHANGED <<CurrentBuffer, PlaybackEvent, soundDevice, soundHeld, soundCall, soundBetween>>

\* Mutant: the end is signalled only when the buffer is still known.
PlayFileDoneSilent ==
  /\ soundDevice # NoBuffer
  /\ soundHeld' = soundHeld \ {CurrentBuffer}
  /\ CurrentBuffer' = NoBuffer /\ soundDevice' = NoBuffer /\ PlaybackEvent' = (CurrentBuffer = NoBuffer)
  /\ UNCHANGED <<AudioIo, soundCall, soundBetween>>

\* InernalOcAudioPlayFileDone, when the device has played its buffer.
PlayFileDone ==
  /\ soundDevice # NoBuffer
  /\ soundHeld' = soundHeld \ {CurrentBuffer}
  /\ CurrentBuffer' = NoBuffer /\ soundDevice' = NoBuffer /\ PlaybackEvent' = TRUE
  /\ UNCHANGED <<AudioIo, soundCall, soundBetween>>

----------------------------------------------------------------------------
\* What the stop of a playback leaves: the device ignores the callback then.
Stopped == [device |-> IF CurrentBuffer = NoBuffer THEN soundDevice ELSE NoBuffer,
            held |-> soundHeld \ {CurrentBuffer}]

\* What the start of a playback with b leaves: its buffer is released when it fails, as
\* it may for a device that plays already.
Started(b, device, held, ok) ==
  IF ok
  THEN /\ CurrentBuffer' = b /\ soundDevice' = b /\ soundHeld' = held
  ELSE /\ CurrentBuffer' = NoBuffer /\ soundDevice' = device /\ soundHeld' = held \ {b}

\* InternalOcAudioPlayFile at TPL_APPLICATION: the file is acquired.  A file that
\* cannot be played is released at once.
PlayFile(b, wait) ==
  /\ AudioIo /\ soundCall.pc = "none" /\ b \notin soundHeld
  /\ soundHeld' = soundHeld \cup {b}
  /\ soundCall' = [NoCall EXCEPT !.pc = "stop", !.then = "play", !.buffer = b, !.wait = wait]
  /\ UNCHANGED <<AudioIo, CurrentBuffer, PlaybackEvent, soundDevice, soundBetween>>

\* InternalOcAudioStopPlayBack and InternalOcAudioGenBeep at TPL_APPLICATION.
StopOrBeep(then, wait) ==
  /\ soundCall.pc = "none"
  /\ (then = "beep") => (AudioIo /\ wait)
  /\ soundCall' = [NoCall EXCEPT !.pc = "stop", !.then = then, !.wait = wait]
  /\ UNCHANGED <<AudioIo, CurrentBuffer, PlaybackEvent, soundDevice, soundHeld, soundBetween>>

\* A caller that wants to wait looks whether there is something to wait for.
StopLooks ==
  /\ soundCall.pc = "stop"
  /\ soundCall' = [soundCall EXCEPT
       !.pc = IF soundCall.wait /\ CurrentBuffer # NoBuffer THEN "wait" ELSE "halt"]
  /\ UNCHANGED <<AudioIo, CurrentBuffer, PlaybackEvent, soundDevice, soundHeld, soundBetween>>

\* WaitForEvent takes the signal.
StopWaits ==
  /\ soundCall.pc = "wait" /\ PlaybackEvent
  /\ PlaybackEvent' = FALSE
  /\ soundCall' = [soundCall EXCEPT !.pc = "halt", !.CheckEvent = FALSE]
  /\ UNCHANGED <<AudioIo, CurrentBuffer, soundDevice, soundHeld, soundBetween>>

\* Mutant: the event is checked only when something was stopped.
StopHaltsUnchecked ==
  /\ soundCall.pc = "halt"
  /\ CurrentBuffer' = NoBuffer /\ soundDevice' = Stopped.device /\ soundHeld' = Stopped.held
  /\ PlaybackEvent' = IF soundCall.CheckEvent /\ CurrentBuffer # NoBuffer THEN FALSE
                      ELSE PlaybackEvent
  /\ soundCall' = [soundCall EXCEPT !.pc = IF soundCall.then = "stop" THEN "none" ELSE "start"]
  /\ UNCHANGED <<AudioIo, soundBetween>>

\* At TPL_NOTIFY: what still plays is stopped, and a signal nobody waited for is taken.
StopHalts ==
  /\ soundCall.pc = "halt"
  /\ CurrentBuffer' = NoBuffer /\ soundDevice' = Stopped.device /\ soundHeld' = Stopped.held
  /\ PlaybackEvent' = IF soundCall.CheckEvent THEN FALSE ELSE PlaybackEvent
  /\ soundCall' = [soundCall EXCEPT !.pc = IF soundCall.then = "stop" THEN "none" ELSE "start"]
  /\ UNCHANGED <<AudioIo, soundBetween>>

\* At TPL_NOTIFY: the acquired buffer is played.
PlayStarts(ok) ==
  /\ soundCall.pc = "start" /\ soundCall.then = "play"
  /\ Started(soundCall.buffer, soundDevice, soundHeld, ok)
  /\ soundCall' = NoCall
  /\ UNCHANGED <<AudioIo, PlaybackEvent, soundBetween>>

\* The tones of a beep, for each of which the caller stays.
BeepEnds ==
  /\ soundCall.pc = "start" /\ soundCall.then = "beep" /\ soundCall' = NoCall
  /\ UNCHANGED <<AudioIo, CurrentBuffer, PlaybackEvent, soundDevice, soundHeld, soundBetween>>

----------------------------------------------------------------------------
\* The same calls at TPL_NOTIFY, where the wait fails and the playback is stopped.
NotifyPlayFile(b, ok) ==
  /\ AudioIo /\ b \notin soundHeld
  /\ Started(b, Stopped.device, Stopped.held \cup {b}, ok)
  /\ PlaybackEvent' = FALSE /\ soundBetween' = (soundBetween \/ soundCall.pc # "none")
  /\ UNCHANGED <<AudioIo, soundCall>>

NotifyStop ==
  /\ CurrentBuffer' = NoBuffer /\ soundDevice' = Stopped.device /\ soundHeld' = Stopped.held
  /\ PlaybackEvent' = FALSE /\ soundBetween' = (soundBetween \/ soundCall.pc # "none")
  /\ UNCHANGED <<AudioIo, soundCall>>

SoundCalls ==
  \/ \E found \in BOOLEAN : Connect(found)
  \/ \E b \in SoundBuffer, wait \in BOOLEAN : PlayFile(b, wait)
  \/ \E then \in {"stop", "beep"}, wait \in BOOLEAN : StopOrBeep(then, wait)
SoundContinues == StopLooks \/ StopWaits \/ StopHalts \/ (\E ok \in BOOLEAN : PlayStarts(ok)) \/ BeepEnds
SoundNotify ==
  \/ PlayFileDone \/ NotifyStop
  \/ \E b \in SoundBuffer, ok \in BOOLEAN : NotifyPlayFile(b, ok)

SoundNext == SoundCalls \/ SoundContinues \/ SoundNotify

\* A device comes to the end of what it plays, and a call goes on when it can.
SoundSpec ==
  /\ SoundInit /\ [][SoundNext]_soundVars
  /\ WF_soundVars(PlayFileDone) /\ WF_soundVars(SoundContinues)

----------------------------------------------------------------------------
\* As long as no call at TPL_NOTIFY has come into one at TPL_APPLICATION, every acquired
\* buffer is the one that plays or the one about to, and is released exactly once,
\* when the device has let go of it; no signal of an earlier sound is left when one
\* begins, so a wait that returns has seen the end of its own (OcAudio.c:243-466).
SoundBuffersRight ==
  ~soundBetween =>
    /\ soundHeld = {CurrentBuffer, soundCall.buffer} \ {NoBuffer}
    /\ soundDevice = CurrentBuffer
    /\ CurrentBuffer # NoBuffer => ~PlaybackEvent
    /\ (soundCall.pc \in {"halt", "start"} /\ ~soundCall.CheckEvent) => CurrentBuffer = NoBuffer

\* A call that waits for a sound returns, unless a call at TPL_NOTIFY stops the sound,
\* whose end nobody signals then (OcAudio.c:404-437).
SoundWaitEnds == soundCall.pc = "wait" ~> soundCall.pc # "wait" \/ soundBetween
=============================================================================
