------------------------------ MODULE PidFile ------------------------------
(***************************************************************************)
(* daemon.c: daemonize2, by which a program becomes the only daemon of its  *)
(* pid file, and the handler in onvif_srvd.c that removes the file.  Files  *)
(* keep their contents and lock when their name is removed, so the name is  *)
(* a variable of its own.  Processes start, are killed and start again; the *)
(* fork, setsid, umask and chdir between are left out.  The daemon of this  *)
(* repository is compiled without the call of daemonize2.                  *)
(***************************************************************************)
EXTENDS Naturals, FiniteSets

CONSTANTS
  Processes,    \* what runs at a time
  FileMax,      \* bound on the files ever created under the name
  StartMax      \* bound on starts

Nobody == "nobody"

ASSUME PidFileAssumption == FileMax \in Nat /\ StartMax \in Nat /\ Nobody \notin Processes

VARIABLES
  name,         \* the file that pid_file_name names, or NoFile
  created,      \* files created so far
  contents,     \* of a file: "empty" or a process
  lock,         \* who has locked it, or Nobody
  at,           \* where a process is: "out", then the step it does next, "daemon" or "exiting"
  fd,           \* the file it has open
  starts,
  removed       \* history: the handler has removed the name

pidVars == <<name, created, contents, lock, at, fd, starts, removed>>

NoFile == 0
Files == 1..FileMax
Free(f) == lock[f] = Nobody

PidInit ==
  /\ name = NoFile /\ created = 0
  /\ contents = [f \in Files |-> "empty"]
  /\ lock = [f \in Files |-> Nobody]
  /\ at = [p \in Processes |-> "out"]
  /\ fd = [p \in Processes |-> NoFile]
  /\ starts = 0
  /\ removed = FALSE

Goes(p, from, to) == at[p] = from /\ at' = [at EXCEPT ![p] = to]

(* The exit of a process, for whatever reason, closes its file and with it  *)
(* unlocks it.                                                             *)
Gone(p) ==
  /\ at' = [at EXCEPT ![p] = "out"]
  /\ fd' = [fd EXCEPT ![p] = NoFile]
  /\ lock' = [f \in Files |-> IF lock[f] = p THEN Nobody ELSE lock[f]]

-----------------------------------------------------------------------------
Start(p) ==
  /\ starts < StartMax
  /\ starts' = starts + 1
  /\ Goes(p, "out", "open")
  /\ UNCHANGED <<name, created, contents, lock, fd, removed>>

(* Mutant of Open: with O_TRUNC.                                           *)
OpenTruncates(p) ==
  /\ Goes(p, "open", "lock")
  /\ IF name # NoFile
     THEN fd' = [fd EXCEPT ![p] = name] /\ UNCHANGED <<name, created>>
     ELSE /\ created < FileMax
          /\ created' = created + 1 /\ name' = created + 1
          /\ fd' = [fd EXCEPT ![p] = created + 1]
  /\ contents' = [contents EXCEPT ![fd'[p]] = "empty"]
  /\ UNCHANGED <<lock, starts, removed>>

(* O_CREAT without O_TRUNC.                                                *)
Open(p) ==
  /\ Goes(p, "open", "lock")
  /\ IF name # NoFile
     THEN fd' = [fd EXCEPT ![p] = name] /\ UNCHANGED <<name, created>>
     ELSE /\ created < FileMax
          /\ created' = created + 1 /\ name' = created + 1
          /\ fd' = [fd EXCEPT ![p] = created + 1]
  /\ UNCHANGED <<contents, lock, starts, removed>>

Locks(f) == Free(f)

LockFile(p) ==
  LET f == fd[p]
  IN  /\ at[p] = "lock"
      /\ IF Locks(f)
         THEN /\ Goes(p, "lock", "truncate")
              /\ lock' = [lock EXCEPT ![f] = p]
              /\ UNCHANGED fd
         ELSE Gone(p)
      /\ UNCHANGED <<name, created, contents, starts, removed>>

Truncate(p) ==
  /\ Goes(p, "truncate", "write")
  /\ contents' = [contents EXCEPT ![fd[p]] = "empty"]
  /\ UNCHANGED <<name, created, lock, fd, starts, removed>>

Write(p) ==
  /\ Goes(p, "write", "daemon")
  /\ contents' = [contents EXCEPT ![fd[p]] = p]
  /\ UNCHANGED <<name, created, lock, fd, starts, removed>>

(* ftruncate or write fails: daemon_error_exit.                            *)
Fails(p) ==
  /\ at[p] \in {"truncate", "write"}
  /\ Gone(p)
  /\ UNCHANGED <<name, created, contents, starts, removed>>

create_pid_file(p) == Open(p) \/ LockFile(p) \/ Truncate(p) \/ Write(p) \/ Fails(p)

(* SIGTERM once init_signals has run, which is in the optional_init after   *)
(* the pid file has been created; the file is removed by its name.          *)
daemon_exit_handler(p) ==
  /\ Goes(p, "daemon", "exiting")
  /\ name' = NoFile
  /\ removed' = TRUE
  /\ UNCHANGED <<created, contents, lock, fd, starts>>

Exit(p) ==
  /\ at[p] = "exiting"
  /\ Gone(p)
  /\ UNCHANGED <<name, created, contents, starts, removed>>

(* A signal that is not handled, at any time.                              *)
Killed(p) ==
  /\ at[p] # "out"
  /\ Gone(p)
  /\ UNCHANGED <<name, created, contents, starts, removed>>

PidNext ==
  \E p \in Processes :
    Start(p) \/ create_pid_file(p) \/ daemon_exit_handler(p) \/ Exit(p) \/ Killed(p)

PidSpec == PidInit /\ [][PidNext]_pidVars

-----------------------------------------------------------------------------
Daemons == {p \in Processes : at[p] = "daemon"}

(* Processes that start at the same time, or after others were killed, do   *)
(* not both become daemons; only after the handler has removed the name     *)
(* can they, having opened different files under it.  For as long as it     *)
(* runs a daemon's pid is what its file holds, also while others try to     *)
(* start, and the file is the one with the name unless that was removed.    *)
OneDaemon ==
  /\ \A p, q \in Daemons : p # q => removed /\ fd[p] # fd[q]
  /\ \A p \in Daemons : contents[fd[p]] = p /\ (name = fd[p] \/ removed)
=============================================================================
