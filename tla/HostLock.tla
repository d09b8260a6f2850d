------------------------------- MODULE HostLock -------------------------------
(***************************************************************************)
(* The lock file the commands of the CLI refresh and sign out under        *)
(* (apps/authup/src/host/lock.ts, host/client.ts, commands/logout.ts).     *)
(*                                                                         *)
(* Processes share one host entry and one refresh token.  The file system  *)
(* gives them an exclusive create, a stat and an unlink; a file older than *)
(* the cut is taken for the file of a process that died.                   *)
(***************************************************************************)
EXTENDS Naturals, FiniteSets

CONSTANTS
    Process,   \* commands that run
    MaxToken,  \* bound of the refresh tokens issued
    Deaths     \* how many processes may die

NoToken == 0
NoFile == "none"

HostAssumption ==
    /\ MaxToken \in Nat \ {0}
    /\ Deaths \in Nat
    /\ NoFile \notin Process

VARIABLES
    file,      \* the process whose create made hosts.lock
    old,       \* its mtime lies past the stale cut
    stored,    \* the refresh token kept in the keychain
    pc,
    mem,       \* mem[p]: the refresh token process p holds
    kind,      \* kind[p]: "refresh" or "logout"
    issued,    \* how many refresh tokens the server issued
    live,      \* the one it accepts
    consumed,  \* the ones it exchanged
    replayed,  \* a consumed one was presented by a host that is signed in
    died,      \* how many processes died
    outlived,  \* a process was in its section when its file passed the cut
    raced,     \* a file was unlinked for an older one that had been there
    torn       \* the server exchanged a token, or may yet, and the new one was not stored

locks == <<file, old>>
tokens == <<issued, live, consumed, replayed>>
ghosts == <<died, outlived, raced, torn>>
vars == <<locks, stored, pc, mem, kind, tokens, ghosts>>

Init ==
    /\ file = NoFile /\ old = FALSE
    /\ stored = 1
    /\ pc = [p \in Process |-> "idle"]
    /\ mem = [p \in Process |-> NoToken]
    /\ kind = [p \in Process |-> "refresh"]
    /\ issued = 1 /\ live = 1 /\ consumed = {}
    /\ replayed = FALSE
    /\ died = 0
    /\ outlived = FALSE /\ raced = FALSE /\ torn = FALSE

Goto(p, label) == pc' = [pc EXCEPT ![p] = label]
Inside(p) == pc[p] \in {"read", "exchange", "write", "remove", "unlink"}

-----------------------------------------------------------------------------
(* A command reads the tokens as it starts.  A refused request, any time   *)
(* later, makes it refresh; a logout revokes what it read first.           *)
Start(p) ==
    /\ pc[p] = "idle"
    /\ stored # NoToken
    /\ mem' = [mem EXCEPT ![p] = stored]
    /\ \/ kind' = [kind EXCEPT ![p] = "refresh"] /\ Goto(p, "open")
       \/ kind' = [kind EXCEPT ![p] = "logout"] /\ Goto(p, "revoke")
    /\ UNCHANGED <<locks, stored, tokens, ghosts>>

(* A command that refreshed, or tried to, goes on with what it holds and   *)
(* refreshes again.                                                        *)
Again(p) ==
    /\ pc[p] = "idle"
    /\ mem[p] # NoToken /\ kind[p] = "refresh"
    /\ Goto(p, "open")
    /\ UNCHANGED <<locks, stored, mem, kind, tokens, ghosts>>

(* POST /token/revoke before the lock is asked for; a failure is reported  *)
(* and passed over.                                                        *)
Revoke(p) ==
    /\ pc[p] = "revoke"
    /\ live' \in {live, IF live = mem[p] THEN NoToken ELSE live}
    /\ Goto(p, "open")
    /\ UNCHANGED <<locks, stored, mem, kind, issued, consumed, replayed, ghosts>>

(* Mutant of Open: the file is opened for writing, not created.            *)
OpenAny(p) ==
    /\ pc[p] = "open"
    /\ file' = p /\ old' = FALSE
    /\ Goto(p, IF kind[p] = "logout" THEN "remove" ELSE "read")
    /\ UNCHANGED <<stored, mem, kind, tokens, ghosts>>

(* fs.open(file, 'wx').                                                    *)
Open(p) ==
    /\ pc[p] = "open"
    /\ file = NoFile
    /\ file' = p /\ old' = FALSE
    /\ Goto(p, IF kind[p] = "logout" THEN "remove" ELSE "read")
    /\ UNCHANGED <<stored, mem, kind, tokens, ghosts>>

(* EEXIST, and the file is past the cut: it is going to be unlinked.       *)
Stat(p) ==
    /\ pc[p] = "open"
    /\ file # NoFile /\ old
    /\ Goto(p, "steal")
    /\ UNCHANGED <<locks, stored, mem, kind, tokens, ghosts>>

(* The deadline of the wait passed.                                        *)
GiveUp(p) ==
    /\ pc[p] = "open"
    /\ file # NoFile /\ ~old
    /\ Goto(p, "idle")
    /\ UNCHANGED <<locks, stored, mem, kind, tokens, ghosts>>

(* fs.rm by name: whatever file is there by now goes.                      *)
Steal(p) ==
    /\ pc[p] = "steal"
    /\ raced' = (raced \/ (file # NoFile /\ ~old))
    /\ file' = NoFile /\ old' = FALSE
    /\ Goto(p, "open")
    /\ UNCHANGED <<stored, mem, kind, tokens, died, outlived, torn>>

(* Mutant of Foreign: the tokens are not read again under the lock.        *)
NeverForeign(p) == FALSE

(* Another process wrote tokens since this one read them.                  *)
Foreign(p) == stored # NoToken /\ stored # mem[p]

(* The tokens another process wrote are taken over, or the ones held are   *)
(* presented.                                                              *)
Read(p) ==
    /\ pc[p] = "read"
    /\ IF Foreign(p)
       THEN mem' = [mem EXCEPT ![p] = stored] /\ Goto(p, "unlink")
       ELSE Goto(p, "exchange") /\ UNCHANGED mem
    /\ UNCHANGED <<locks, stored, kind, tokens, ghosts>>

(* The refresh grant: exchanged once, a replay revokes the family.  The    *)
(* answer that carries the new tokens may be lost; or the call is given up *)
(* first, and the server may come to the request later: what a late one    *)
(* does to the tokens is not modelled.                                     *)
Exchange(p) ==
    /\ pc[p] = "exchange"
    /\ \/ /\ mem[p] = live /\ issued < MaxToken
          /\ issued' = issued + 1 /\ live' = issued + 1
          /\ consumed' = consumed \union {live}
          /\ \/ mem' = [mem EXCEPT ![p] = issued + 1] /\ Goto(p, "write") /\ UNCHANGED torn
             \/ torn' = TRUE /\ Goto(p, "unlink") /\ UNCHANGED mem
          /\ UNCHANGED replayed
       \/ /\ mem[p] \in consumed
          /\ replayed' = (replayed \/ stored # NoToken) /\ live' = NoToken
          /\ Goto(p, "unlink")
          /\ UNCHANGED <<issued, consumed, mem, torn>>
       \/ /\ mem[p] # live /\ mem[p] \notin consumed
          /\ Goto(p, "unlink")
          /\ UNCHANGED <<issued, live, consumed, replayed, mem, torn>>
       \/ torn' = TRUE /\ Goto(p, "unlink") /\ UNCHANGED <<tokens, mem>>
    /\ UNCHANGED <<locks, stored, kind, died, outlived, raced>>

Write(p) ==
    /\ pc[p] = "write"
    /\ stored' = mem[p]
    /\ Goto(p, "unlink")
    /\ UNCHANGED <<locks, mem, kind, tokens, ghosts>>

(* The section of a logout.                                                *)
Remove(p) ==
    /\ pc[p] = "remove"
    /\ stored' = NoToken
    /\ Goto(p, "unlink")
    /\ UNCHANGED <<locks, mem, kind, tokens, ghosts>>

(* The release: fs.rm by name, whoever made the file that is there.        *)
Unlink(p) ==
    /\ pc[p] = "unlink"
    /\ file' = NoFile /\ old' = FALSE
    /\ Goto(p, "idle")
    /\ UNCHANGED <<stored, mem, kind, tokens, ghosts>>

(* An awaited call of a command rejects and has done nothing.  In the      *)
(* section the lock is released; a release that fails leaves the file, and *)
(* a write that fails the token that was exchanged.                        *)
Reject(p) ==
    /\ pc[p] \notin {"idle", "revoke"}
    /\ torn' = (torn \/ pc[p] = "write")
    /\ Goto(p, IF pc[p] \in {"open", "steal", "unlink"} THEN "idle" ELSE "unlink")
    /\ UNCHANGED <<locks, stored, mem, kind, tokens, died, outlived, raced>>

(* Time passes the cut; a holder still inside outlived it.                 *)
Age ==
    /\ file # NoFile /\ ~old
    /\ old' = TRUE
    /\ outlived' = (outlived \/ \E p \in Process : Inside(p))
    /\ UNCHANGED <<file, stored, pc, mem, kind, tokens, died, raced, torn>>

(* A process is killed; its file stays.                                    *)
Die(p) ==
    /\ pc[p] # "idle"
    /\ died < Deaths
    /\ died' = died + 1
    /\ torn' = (torn \/ pc[p] = "write")
    /\ Goto(p, "idle")
    /\ mem' = [mem EXCEPT ![p] = NoToken]
    /\ UNCHANGED <<locks, stored, kind, tokens, outlived, raced>>

Next ==
    \/ \E p \in Process :
         \/ Start(p) \/ Again(p) \/ Revoke(p) \/ Open(p) \/ Stat(p) \/ GiveUp(p) \/ Steal(p)
         \/ Read(p) \/ Exchange(p) \/ Write(p) \/ Remove(p) \/ Unlink(p) \/ Reject(p) \/ Die(p)
    \/ Age

Spec == Init /\ [][Next]_vars

-----------------------------------------------------------------------------
TypeOK ==
    /\ file \in Process \union {NoFile} /\ old \in BOOLEAN
    /\ issued \in 1 .. MaxToken
    /\ stored \in 0 .. issued /\ live \in 0 .. issued
    /\ consumed \subseteq 1 .. issued
    /\ pc \in [Process -> {"idle", "revoke", "open", "steal", "read", "exchange", "write",
                           "remove", "unlink"}]
    /\ mem \in [Process -> 0 .. issued]
    /\ kind \in [Process -> {"refresh", "logout"}]
    /\ died \in 0 .. Deaths
    /\ {replayed, outlived, raced, torn} \subseteq BOOLEAN

(* Two processes are never inside the lock at a time, though a holder dies *)
(* and its file is taken away: only a holder that outlived the stale cut,  *)
(* or a waiter that unlinks a file newer than the one it looked at, breaks *)
(* it.                                                                     *)
OneInside ==
    \/ outlived \/ raced
    \/ \A p, q \in Process : Inside(p) /\ Inside(q) => p = q

(* While the host is signed in no refresh token is presented twice, so its *)
(* family is not revoked for a replay, but for those two and an exchange   *)
(* whose new token was not stored: the process died or the write failed    *)
(* before it was, or no answer came, so that the token presented may have  *)
(* been exchanged or be exchanged yet.  (A refresh that waited for the     *)
(* lock behind a logout may present a token exchanged before.)             *)
NeverReplays == outlived \/ raced \/ torn \/ ~replayed

=============================================================================
