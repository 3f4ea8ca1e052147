--------------------------- MODULE MCServoFirmware ---------------------------
(***************************************************************************)
(* ServoFirmware on small instances (Servo*.cfg), and what comments of the *)
(* sketch say of it that it does not do.                                   *)
(***************************************************************************)
EXTENDS ServoFirmware

AllChannelsShown == \A c \in Channels : chip[c] \in {sent, TestPose}

(* "guard for BG-thread vs loop() race" (sketch.ino:83): an address scan   *)
(* leaves what loop() does on the bus alone.  g_i2c_busy is raised only    *)
(* around reads, so a probe can cut a servo write or send it elsewhere;    *)
(* the write may count as done all the same and is then not retried.       *)
ScanSparesServoWrites == Settled /\ awake /\ ~unflushed => AllChannelsShown

(* "flush RAM state after sleep/wake reset" (sketch.ino:782): a chip that  *)
(* was woken gets the last pose again.  It does not if the read that is to *)
(* find it awake fails: the flag stays down until the next message.        *)
WakeFlushes == Settled /\ awake /\ ~raced => AllChannelsShown
=============================================================================
