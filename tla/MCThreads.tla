----------------------------- MODULE MCThreads -----------------------------
(***************************************************************************)
(* The components beside the job queue in which threads meet, checked in   *)
(* one run: a behaviour is one of HTTP requests, of the sound system or of *)
(* the memory manager.  They share nothing, so that the others stay as     *)
(* they start, where none of their fair actions is enabled.                *)
(***************************************************************************)
EXTENDS HttpRequest, SoundSystem, Memory

VARIABLE threadsOf  \* which component the behaviour is of

threadsVars == <<threadsOf, httpVars, soundVars, memoryVars>>

ThreadsInit == /\ HttpInit /\ SoundInit /\ MemoryInit
               /\ threadsOf \in {"http", "sound", "memory"}
               /\ threadsOf # "sound" => ~device

ThreadsNext ==
  /\ UNCHANGED threadsOf
  /\ \/ threadsOf = "http" /\ HttpNext /\ UNCHANGED <<soundVars, memoryVars>>
     \/ threadsOf = "sound" /\ SoundNext /\ UNCHANGED <<httpVars, memoryVars>>
     \/ threadsOf = "memory" /\ MemoryNext /\ UNCHANGED <<httpVars, soundVars>>

ThreadsSpec == /\ ThreadsInit /\ [][ThreadsNext]_threadsVars
               /\ HttpFairness /\ SoundFairness

(* The work of a request ends, unless it reads from a peer that never       *)
(* answers, and a frame ends, unless it has left the lock of the sound      *)
(* system by an error and meets it again: nobody waits for a thread that    *)
(* waits for it.                                                            *)
NoThreadHangs == HttpWorkersEnd /\ SoundFrameEnds

ThreadsTypeOK == HttpTypeOK /\ SoundTypeOK /\ MemoryTypeOK /\ threadsOf \in {"http", "sound", "memory"}
=============================================================================
