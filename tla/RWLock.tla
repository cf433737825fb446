------------------------------- MODULE RWLock -------------------------------
(***************************************************************************)
(* What a read/write lock promises its callers: any number of readers or   *)
(* one writer, and never both.  OSMutexRW.tla is the lock that             *)
(* CommonUtilitiesLib/OSMutexRW.cpp builds from a mutex and two condition  *)
(* variables; this module is the specification it is held against.         *)
(***************************************************************************)
CONSTANT Threads

VARIABLES
  readers,    (* the threads that hold the lock for reading                *)
  writers     (* the threads that hold it for writing                      *)

rwVars == <<readers, writers>>

RWInit ==
  /\ readers = {}
  /\ writers = {}

AcquireRead(t) ==
  /\ t \notin readers
  /\ writers = {}
  /\ readers' = readers \union {t}
  /\ UNCHANGED writers

AcquireWrite(t) ==
  /\ readers = {}
  /\ writers = {}
  /\ writers' = {t}
  /\ UNCHANGED readers

Release(t) ==
  /\ t \in readers \union writers
  /\ readers' = readers \ {t}
  /\ writers' = writers \ {t}

RWNext == \E t \in Threads : AcquireRead(t) \/ AcquireWrite(t) \/ Release(t)

RWSpec == RWInit /\ [][RWNext]_rwVars
=============================================================================
