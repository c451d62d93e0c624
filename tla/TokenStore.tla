------------------------------ MODULE TokenStore ------------------------------
(***************************************************************************)
(* The bridge's one token: token-store.js and auth.js, the rotate request  *)
(* of server.js, and the two places bin/mqtt-http-bridge.js hands it to,   *)
(* the CONNECT check of embedded-broker.js and the bridge's own connection *)
(* to that broker.                                                         *)
(*                                                                         *)
(* A rotation writes a file, renames it and syncs the directory without    *)
(* yielding: only a crash comes between its steps.  Of the disk there is   *)
(* what the name refers to, and what of that a crash would leave.          *)
(***************************************************************************)
EXTENDS Naturals

CONSTANTS
  Token,
  ConfigToken, \* AUTH_TOKEN
  Empty,       \* an empty file, and a rotation that is not on
  MaxRotations, MaxCrashes \* bounds

ASSUME TokensNamed == ConfigToken \in Token /\ Empty \notin Token

VARIABLES
  current,   \* current and currentDigest; Empty while the process is down
  onDisk,    \* what the file is read as, Empty if it is not there
  lasting,   \* what it would be read as after a crash: a set, not yet decided
  rotation,  \* the rotation under way: its token and step, or Empty
  requests,  \* rotate requests past authorized(), their bodies still to come
  inner,     \* the bridge's own connection: the password it dials with, and whether it is up
  rotations, crashes,
  acked,     \* history: the last token a 204 was sent for, or the one first started with
  loose,     \* history: tokens whose rotation got as far as the disk and no 204
  superseded \* history: tokens acknowledged before, with no directory synced since

tokenVars == <<current, onDisk, lasting, rotation, requests, inner, rotations, crashes, acked, loose, superseded>>

\* createTokenStore: the file before the configuration, an empty file not.
Stored(file) == IF file = Empty THEN ConfigToken ELSE file

TokensInit ==
  /\ current = ConfigToken /\ onDisk = Empty /\ lasting = {Empty} /\ rotation = Empty
  /\ requests = {} /\ inner = [password |-> ConfigToken, up |-> TRUE]
  /\ rotations = 0 /\ crashes = 0 /\ acked = ConfigToken /\ loose = {} /\ superseded = {}

\* digestMatches, of the bearer check and of the CONNECT check
Authenticates(password) == current # Empty /\ password = current

\* POST /-/auth/rotate: authorised as it arrives, before its body is awaited.
RotateArrives(presented, token) ==
  /\ rotation = Empty /\ Authenticates(presented)
  /\ rotations < MaxRotations /\ rotations' = rotations + 1
  /\ requests' = requests \cup {[id |-> rotations, token |-> token]}
  /\ UNCHANGED <<current, onDisk, lasting, rotation, inner, crashes, acked, loose, superseded>>

\* The body does not come, is too large, or is no token.
RotateRefused(r) ==
  /\ rotation = Empty /\ r \in requests /\ requests' = requests \ {r}
  /\ UNCHANGED <<current, onDisk, lasting, rotation, inner, rotations, crashes, acked, loose, superseded>>

\* persist, step by step: the file is written under another name ...
WriteFile(r) ==
  /\ rotation = Empty /\ r \in requests /\ requests' = requests \ {r}
  /\ rotation' = [token |-> r.token, step |-> "written"]
  /\ UNCHANGED <<current, onDisk, lasting, inner, rotations, crashes, acked, loose, superseded>>

\* ... synced ...
SyncFile ==
  /\ rotation # Empty /\ rotation.step = "written"
  /\ rotation' = [rotation EXCEPT !.step = "synced"]
  /\ UNCHANGED <<current, onDisk, lasting, requests, inner, rotations, crashes, acked, loose, superseded>>

\* Mutant of RenameFile: a file that was not synced is renamed.
RenameUnsynced ==
  /\ rotation # Empty /\ rotation.step \in {"written", "synced"}
  /\ onDisk' = rotation.token
  /\ lasting' = lasting \cup {IF rotation.step = "synced" THEN rotation.token ELSE Empty}
  /\ rotation' = [rotation EXCEPT !.step = "renamed"]
  /\ loose' = loose \cup {rotation.token}
  /\ UNCHANGED <<current, requests, inner, rotations, crashes, acked, superseded>>

\* ... renamed: a crash may now leave either, and nothing of one not synced ...
RenameFile ==
  /\ rotation # Empty /\ rotation.step = "synced"
  /\ onDisk' = rotation.token
  /\ lasting' = lasting \cup {IF rotation.step = "synced" THEN rotation.token ELSE Empty}
  /\ rotation' = [rotation EXCEPT !.step = "renamed"]
  /\ loose' = loose \cup {rotation.token}
  /\ UNCHANGED <<current, requests, inner, rotations, crashes, acked, superseded>>

\* ... and the directory synced; a filesystem that refuses that is passed over,
\* and a crash may still leave what it might before.  Then the token is taken
\* and the 204 sent.
SyncDirectory ==
  /\ rotation # Empty /\ rotation.step = "renamed"
  /\ \/ lasting' = {onDisk} /\ loose' = {} /\ superseded' = {}
     \/ superseded' = superseded \cup {acked} /\ UNCHANGED <<lasting, loose>>
  /\ current' = rotation.token /\ acked' = rotation.token
  /\ rotation' = Empty
  /\ UNCHANGED <<onDisk, requests, inner, rotations, crashes>>

\* Any of the calls may throw: 500, and the token stays what it was.
PersistThrows ==
  /\ rotation # Empty /\ rotation' = Empty
  /\ UNCHANGED <<current, onDisk, lasting, requests, inner, rotations, crashes, acked, loose, superseded>>

-----------------------------------------------------------------------------
Crash ==
  /\ current # Empty /\ crashes < MaxCrashes /\ crashes' = crashes + 1
  /\ \E file \in lasting : onDisk' = file /\ lasting' = {file}
  /\ current' = Empty /\ rotation' = Empty /\ requests' = {}
  /\ inner' = [inner EXCEPT !.up = FALSE]
  /\ UNCHANGED <<rotations, acked, loose, superseded>>

\* The bridge's own CONNECT is sent at once, with the token of the start.
Start ==
  /\ current = Empty
  /\ current' = Stored(onDisk)
  /\ inner' = [password |-> current', up |-> TRUE]
  /\ UNCHANGED <<onDisk, lasting, rotation, requests, rotations, crashes, acked, loose, superseded>>

InnerDrops ==
  /\ inner.up /\ rotation = Empty
  /\ inner' = [inner EXCEPT !.up = FALSE]
  /\ UNCHANGED <<current, onDisk, lasting, rotation, requests, rotations, crashes, acked, loose, superseded>>

InnerConnects ==
  /\ ~inner.up /\ rotation = Empty /\ Authenticates(inner.password)
  /\ inner' = [inner EXCEPT !.up = TRUE]
  /\ UNCHANGED <<current, onDisk, lasting, rotation, requests, rotations, crashes, acked, loose, superseded>>

-----------------------------------------------------------------------------
TokensNext ==
  \/ \E presented \in Token, token \in Token : RotateArrives(presented, token)
  \/ \E r \in requests : RotateRefused(r) \/ WriteFile(r)
  \/ SyncFile \/ RenameFile \/ SyncDirectory \/ PersistThrows
  \/ Crash \/ Start \/ InnerDrops \/ InnerConnects

TokensSpec == TokensInit /\ [][TokensNext]_tokenVars

-----------------------------------------------------------------------------
TokensTypeOK ==
  /\ current \in Token \cup {Empty} /\ onDisk \in Token \cup {Empty} /\ lasting \subseteq Token \cup {Empty}
  /\ rotation \in [token : Token, step : {"written", "synced", "renamed"}] \cup {Empty}
  /\ requests \subseteq [id : Nat, token : Token] /\ inner \in [password : Token, up : BOOLEAN]
  /\ rotations \in Nat /\ crashes \in Nat /\ acked \in Token
  /\ loose \subseteq Token /\ superseded \subseteq Token

\* An acknowledged rotation is the token of this process, whatever fails later;
\* and of one that comes after a crash, if the filesystem syncs a directory:
\* one that refuses may bring back a token acknowledged before.  Either way it
\* is whole: one that was acknowledged, or whose own rotation reached the disk
\* and was cut short or failed there, and AUTH_TOKEN, which an empty or missing
\* file stands for, only where it is one of these itself (persist and rotate of
\* token-store.js).
Survives(token) == token = acked \/ token \in loose \cup superseded
TokensAgree ==
  /\ current # Empty => Survives(current)
  /\ crashes = 0 => current = acked
  /\ \A file \in lasting : Survives(Stored(file))
  /\ onDisk # Empty => Survives(onDisk)
=============================================================================
