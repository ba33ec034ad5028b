--------------------------- MODULE RecordedSession ---------------------------
(***************************************************************************)
(* The three programs that read a recorded session, each by itself: the    *)
(* replay into the market state, the MoldUDP64 load generator, and the UDP *)
(* replayer that drops records on purpose together with the live feed that *)
(* has to fill the gaps.                                                   *)
(***************************************************************************)
EXTENDS ItchReplay, ItchMoldUdpLoadGen, ItchUdpReplayGap

CONSTANTS Files,        \* recorded sessions, see RecordedFile
          GapFiles      \* those the UDP replayer is given

ASSUME FilesAssumption == \A f \in Files \cup GapFiles : IsRecording(f)

VARIABLE program        \* which of them runs

sessionVars == <<file, program, replayAppVars, generatorVars, gapVars>>

SessionInit ==
  /\ \/ /\ program = "replay" /\ file \in Files
        /\ requestedMessages = Max(RequestedMessages) /\ script = CHOOSE s \in Scripts : TRUE
     \/ /\ program = "generator" /\ file \in Files
        /\ requestedMessages \in RequestedMessages /\ script = CHOOSE s \in Scripts : TRUE
     \/ /\ program = "gap" /\ file \in GapFiles
        /\ requestedMessages = Max(RequestedMessages) /\ script \in Scripts
  /\ ReplayInit /\ GeneratorInit /\ GapInit

ReplayMainThread == /\ program = "replay" /\ ReplayMain
                    /\ UNCHANGED <<file, program, generatorVars, gapVars>>

ReplayConsumerThread == /\ program = "replay" /\ ReplayConsumer
                        /\ UNCHANGED <<file, program, generatorVars, gapVars>>

LoadGen == /\ program = "generator" /\ Generator
           /\ UNCHANGED <<file, program, replayAppVars, gapVars>>

GapReplay == /\ program = "gap"
             /\ Sender \/ Receiver
             /\ UNCHANGED <<file, program, replayAppVars, generatorVars>>

Finished == /\ \/ replay = "done"
               \/ program = "generator" /\ generator \in {"sent", "failed"}
               \/ program = "gap" /\ sender # "replay" /\ state = "Failed" /\ pc = "off"
            /\ UNCHANGED sessionVars

SessionNext == ReplayMainThread \/ ReplayConsumerThread \/ LoadGen \/ GapReplay \/ Finished

SessionSpec == SessionInit /\ [][SessionNext]_sessionVars

(* Both threads of the replay are scheduled for ever. *)
SessionFairSpec ==
  /\ SessionSpec
  /\ WF_sessionVars(ReplayMainThread) /\ WF_sessionVars(ReplayConsumerThread)
-----------------------------------------------------------------------------
(* At every step of the replay: the reader misses no record, the market    *)
(* state gets what decodes as the exchange wrote it, and the counters of   *)
(* the report add up, events included.                                     *)
ReplayInv == ReplayTypeOK /\ ReplayReadsAll /\ DeliveredIsTheFile /\ StatsReconcile

(* The replay ends, whatever the file ends with, and by then every event   *)
(* that went into the queue was consumed (itch_replay.cpp, lines 272-285). *)
ReplayEnds ==
  (program = "replay") ~>
    (replay = "done" /\ events = <<>> /\ consumedEvents = publishAttempts - droppedEvents)
=============================================================================
