-------------------------------- MODULE Boot --------------------------------
(***************************************************************************)
(* The start of main(): log, serial number, GPIO access, config.json and   *)
(* the server, over restarts.  config.json gives each input channel its    *)
(* bias and enable levels; they are kept in gpio_bias for the callbacks    *)
(* and the bias is set in the input hardware, which keeps it while the     *)
(* process is down.  A config.json that cannot be read is replaced by the  *)
(* defaults.  What is in the file as text is the matter of JsonText: here  *)
(* it is "good" (parses), "bad" (does not), "part" (what a cut off write   *)
(* left, does not either), "big" (fills the 512 bytes of the buffer) or    *)
(* "absent".  The bin counter's boot is in BinCount.                       *)
(***************************************************************************)
EXTENDS Integers

CONSTANTS Channels,  \* channel_name
          Masked     \* the channels in gpio_bias_mask: all but the first

ASSUME BootAssumption == Masked \subseteq Channels

Setting  == [bias : {"low", "high"}, enable : {"low", "high"}]
Config   == UNION {[D -> Setting] : D \in SUBSET Channels}
Zero     == [c \in Channels |-> [bias |-> "low", enable |-> "low"]]
Defaults == [c \in Channels |-> [bias |-> "low", enable |-> "high"]]
NoConfig == [c \in {} |-> Zero[c]]

VARIABLES at,         \* where main is: "down", then the step it is about to make
          file,       \* config.json: its state and, if good, what it says
          gpio_bias,  \* levels the callbacks use; zero in a new process
          hardware,   \* bias of the inputs, on Masked
          applied,    \* what this process has read: {} or a configuration
          failed      \* what failed in this process though it need not:
                      \* "read" of the file, "msgsnd" of the bias

bootVars == <<at, file, gpio_bias, hardware, applied, failed>>

File(state, conf) == [state |-> state, conf |-> conf]

BootInit ==
    /\ at = "down"
    /\ file = File("absent", NoConfig)
    /\ gpio_bias = Zero
    /\ hardware \in [Masked -> {"low", "high"}]
    /\ applied = {}
    /\ failed = {}

-----------------------------------------------------------------------------
(* Outside the process                                                     *)

OperatorWrites(f) ==
    /\ at = "down"
    /\ file' = f
    /\ UNCHANGED <<at, gpio_bias, hardware, applied, failed>>

\* A new process; its static variables are zero.
Exec ==
    /\ at = "down"
    /\ at' = "log_init"
    /\ UNCHANGED <<file, gpio_bias, hardware, applied, failed>>

\* It is killed, or main returns EXIT_FAILURE: the log cannot be opened, there
\* is no serial number, no shared memory or message queue, no thread.  Its
\* memory goes with it.
Die ==
    /\ at # "down"
    /\ at' = "down"
    /\ gpio_bias' = Zero
    /\ applied' = {}
    /\ failed' = {}
    /\ UNCHANGED <<file, hardware>>

-----------------------------------------------------------------------------
(* main                                                                    *)

Goes(from, to) == at = from /\ at' = to

OpenLog == Goes("log_init", "read_esn") /\ UNCHANGED <<file, gpio_bias, hardware, applied, failed>>

read_esn_from_file ==
    Goes("read_esn", "gpio_init") /\ UNCHANGED <<file, gpio_bias, hardware, applied, failed>>

gpio_init == Goes("gpio_init", "config") /\ UNCHANGED <<file, gpio_bias, hardware, applied, failed>>

\* A channel the configuration does not name keeps its zeros.
Applied(conf) == [c \in Channels |-> IF c \in DOMAIN conf THEN conf[c] ELSE Zero[c]]

\* Fault: a channel without a device object keeps the hardware's old bias.
gpio_set_inputbias_named(conf) ==
    [c \in Masked |-> IF c \in DOMAIN conf THEN conf[c].bias ELSE hardware[c]]

gpio_set_inputbias(conf) == [c \in Masked |-> Applied(conf)[c].bias]

ReadConfig ==
    /\ Goes("config", "start_server")
    /\ file.state = "good"
    /\ gpio_bias' = Applied(file.conf)
    /\ applied' = {file.conf}
    /\ \/ hardware' = gpio_set_inputbias(file.conf) /\ UNCHANGED failed
       \/ failed' = failed \cup {"msgsnd"} /\ UNCHANGED hardware
    /\ UNCHANGED file

\* Fault: defaults are written over a file that did not parse as well.
ReadBadConfig_replaced ==
    /\ Goes("config", "defaults")
    /\ file.state \in {"bad", "part"}
    /\ UNCHANGED <<file, gpio_bias, hardware, applied, failed>>

\* The text does not parse; the log call lacks the argument of its %s
\* (main.c:102), so that it may also be the end of the process (Die).
ReadBadConfig ==
    /\ Goes("config", "start_server")
    /\ file.state \in {"bad", "part"}
    /\ UNCHANGED <<file, gpio_bias, hardware, applied, failed>>

\* Absent, too big, or stat, fopen or fread fails.
ReadFails ==
    /\ Goes("config", "defaults")
    /\ failed' = IF file.state \in {"good", "bad", "part"} THEN failed \cup {"read"} ELSE failed
    /\ UNCHANGED <<file, gpio_bias, hardware, applied>>

\* fopen(.., "wb") empties the file, which the write then fills, or does not:
\* no space, or death, leaves a part.  gpio_bias keeps its zeros.
OpenDefaults ==
    /\ Goes("defaults", "write")
    /\ file' = File("part", NoConfig)
    /\ UNCHANGED <<gpio_bias, hardware, applied, failed>>

WriteDefaults ==
    /\ Goes("write", "start_server")
    /\ file' \in {file, File("good", Defaults)}
    /\ UNCHANGED <<gpio_bias, hardware, applied, failed>>

DefaultsNotOpened ==
    /\ Goes("defaults", "start_server")
    /\ UNCHANGED <<file, gpio_bias, hardware, applied, failed>>

start_sg_server ==
    Goes("start_server", "running") /\ UNCHANGED <<file, gpio_bias, hardware, applied, failed>>

BootNext ==
    \/ \E c \in Config : OperatorWrites(File("good", c))
    \/ \E s \in {"bad", "big", "absent"} : OperatorWrites(File(s, NoConfig))
    \/ Exec \/ Die
    \/ OpenLog \/ read_esn_from_file \/ gpio_init
    \/ ReadConfig \/ ReadBadConfig \/ ReadFails
    \/ OpenDefaults \/ WriteDefaults \/ DefaultsNotOpened
    \/ start_sg_server

BootSpec == BootInit /\ [][BootNext]_bootVars

-----------------------------------------------------------------------------
(* Properties                                                              *)

\* A process that runs with what config.json says runs with all of it: the
\* levels the callbacks compare with are the file's, a channel the file does
\* not name is low in both, and the hardware is biased to the same levels
\* whatever an earlier process had set, unless msgsnd failed.  Any other
\* process has applied nothing at all, not even the defaults it wrote.
BiasAgrees ==
    at = "running" =>
        \/ applied = {} /\ gpio_bias = Zero
        \/ /\ applied = {file.conf} /\ file.state = "good"
           /\ gpio_bias = Applied(file.conf)
           /\ "msgsnd" \in failed \/ \A c \in Masked : hardware[c] = gpio_bias[c].bias

\* The program replaces a configuration only if reading it has failed: what an
\* operator wrote survives every restart, and a text that does not parse is
\* left for the operator to see.
OperatorConfigKept ==
    [][(at # "down" /\ file.state \in {"good", "bad"} /\ file' # file)
         => "read" \in failed]_bootVars

=============================================================================
