---------------------- MODULE MCValidationReadinessRun ----------------------
(* Small instances of ValidationReadinessRun for TLC.                      *)
EXTENDS ValidationReadinessRun

Control(id, key, action) == [id |-> id, key |-> key, action |-> action]

MCRetirement == Control("retire", "retire-key", "cancel")

(* Two operators may defer the same run.                                   *)
MCDeferControls == {Control("s", "s-key", "resume"),
                    Control("d", "d-key", "defer"),
                    Control("c", "c-key", "cancel"),
                    Control("e", "e-key", "defer")}

(* Three controls that start attempts, and a second defer under the key of *)
(* the retry.                                                              *)
MCControls == {Control("s", "s-key", "resume"),
               Control("d", "d-key", "defer"),
               Control("c", "c-key", "cancel"),
               Control("r", "r-key", "retry"),
               Control("t", "t-key", "resume"),
               Control("e", "r-key", "defer")}
=============================================================================
