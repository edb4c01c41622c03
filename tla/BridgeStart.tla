----------------------------- MODULE BridgeStart -----------------------------
(***************************************************************************)
(* The start of spark-otel-bridge: a target plugin is selected and         *)
(* prepared with the rights the process was started with, these are given  *)
(* up, then it connects.  The maple plugin reads a credential file, which  *)
(* an operator may replace at any moment.  A step that fails ends the      *)
(* process, and systemd starts it again.                                   *)
(***************************************************************************)
EXTENDS Integers

CONSTANTS
  Environments,     \* what the environment may be at a start, see Selectable
  Files,            \* credential files the operator may put in place
  NoFile,
  Schema, Producer, \* the expected ones
  MaxSize           \* MAX_MAPLE_CREDENTIAL_BYTES

(* An environment is [target, maple, overrides, root]: --otel-target, which *)
(* maple settings are given, whether an OTEL_EXPORTER_OTLP_* variable is    *)
(* set, and whether the unit starts the process as root (both Boolean).     *)
(* NoFile is not in Files.                                                  *)

VARIABLES
  environment, \* of the current process
  phase,       \* how far the process is
  root,        \* it has root's rights
  file,        \* the file at the credential path, while anybody looks
  descriptor,  \* the file that was opened
  credential   \* what the exporters' headers were made from

startVars == <<environment, phase, root, file, descriptor, credential>>

NoProcess == [target |-> "none", maple |-> {}, overrides |-> FALSE, root |-> FALSE]

StartType ==
  /\ environment \in Environments \union {NoProcess}
  /\ phase \in {"down", "selected", "trusted", "opened", "prepared", "dropped",
                "running"}
  /\ root \in BOOLEAN
  /\ file \in Files \union {NoFile}
  /\ descriptor \in Files \union {NoFile}
  /\ credential \in Files \union {NoFile}

StartInit ==
  /\ environment = NoProcess
  /\ phase = "down" /\ root = FALSE
  /\ file = NoFile /\ descriptor = NoFile /\ credential = NoFile

AllSettings == {"credential", "schema", "producer"}

\* select, StandardPlugin::new and MaplePlugin::new
Selectable(e) == \/ e.target = "standard" /\ e.maple = {}
                 \/ e.target = "maple" /\ e.maple = AllSettings

\* validate_root_owned_parent_chain; the path is absolute.
ParentsFit(f) ==
  \A d \in f.parents : /\ d.kind = "directory"    \* itself, not a link to one
                       /\ d.owner = "root"
                       /\ ~d.writable             \* by group or others

\* validate_credential_metadata
MetadataFit(f) ==
  f.kind = "file" /\ f.owner = "root" /\ f.mode = "0600" /\ f.size \in 1 .. MaxSize

\* validate_credential on what was decoded.
ContentFit(f) ==
  /\ f.schema = Schema /\ f.producer = Producer
  /\ f.endpoint = "authority"        \* scheme and authority, nothing else
  /\ f.protocol = "http/protobuf"
  /\ f.username = "of producer"      \* maple-<producer>-<letters and digits>
  /\ f.password = "one line"

-----------------------------------------------------------------------------

\* systemd starts the process; the operator may have changed anything.
Start ==
  /\ phase = "down"
  /\ environment' \in {e \in Environments : Selectable(e)}
  /\ phase' = "selected" /\ root' = environment'.root
  /\ file' \in IF environment'.target = "maple" THEN Files ELSE {NoFile}
  /\ UNCHANGED <<descriptor, credential>>

\* The operator renames another file to the path.
Replace ==
  /\ phase \in {"selected", "trusted", "opened"} /\ environment.target = "maple"
  /\ file' \in Files \ {file}
  /\ UNCHANGED <<environment, phase, root, descriptor, credential>>

\* The standard plugin has nothing to prepare.
PrepareStandard ==
  /\ phase = "selected" /\ environment.target = "standard"
  /\ phase' = "prepared"
  /\ UNCHANGED <<environment, root, file, descriptor, credential>>

\* reject_otel_override_environment, then load_credential up to the open.
TrustPath ==
  /\ phase = "selected" /\ environment.target = "maple"
  /\ ~environment.overrides /\ ParentsFit(file)
  /\ phase' = "trusted"
  /\ UNCHANGED <<environment, root, file, descriptor, credential>>

\* O_NOFOLLOW; a file of mode 0600 opens for its owner only.
Open ==
  /\ phase = "trusted"
  /\ file.kind # "link" /\ (root \/ file.mode # "0600")
  /\ descriptor' = file
  /\ phase' = "opened"
  /\ UNCHANGED <<environment, root, file, credential>>

PathAgain == file    \* mutant of Bytes: the path is opened again to read

\* The bytes come from the descriptor whose metadata was checked.
Bytes == descriptor

\* The rest of load_credential, and exporter_config.
Load ==
  /\ phase = "opened"
  /\ MetadataFit(descriptor) /\ Bytes.size <= MaxSize /\ ContentFit(Bytes)
  /\ credential' = Bytes
  /\ descriptor' = NoFile /\ file' = NoFile
  /\ phase' = "prepared"
  /\ UNCHANGED <<environment, root>>

\* drop_root_privileges; it fails unless the process has become the account.
Drop ==
  /\ phase = "prepared"
  /\ root' = FALSE
  /\ phase' = "dropped"
  /\ UNCHANGED <<environment, file, descriptor, credential>>

\* Exporters are built, NATS accepts the connection and the subscription.
Connect ==
  /\ phase = "dropped"
  /\ phase' = "running"
  /\ UNCHANGED <<environment, root, file, descriptor, credential>>

\* A step fails, or the process is stopped or killed.
Exit ==
  /\ phase # "down"
  /\ phase' = "down" /\ root' = FALSE /\ environment' = NoProcess
  /\ file' = NoFile /\ descriptor' = NoFile /\ credential' = NoFile

Preparation == \/ Start \/ Replace \/ PrepareStandard \/ TrustPath \/ Open \/ Load
               \/ Drop \/ Connect

-----------------------------------------------------------------------------
(* Properties *)

(***************************************************************************)
(* A bridge that runs has the target it was configured for, and none of    *)
(* root's rights: with maple the credential in use stood, as one version,  *)
(* in a file whose metadata and content both passed, although the operator *)
(* may replace the file between any two steps of the start.                *)
(***************************************************************************)
TargetFit ==
  phase = "running" =>
    /\ ~root
    /\ environment.target = "standard" => credential = NoFile
    /\ environment.target = "maple" =>
         /\ credential \in Files /\ ~environment.overrides
         /\ MetadataFit(credential) /\ ContentFit(credential)
=============================================================================
