------------------------------ MODULE CertWatch ------------------------------
(***************************************************************************)
(* The certificate of the embedded broker: watchCertFiles of embedded-     *)
(* broker.js.  TLS_CERT and TLS_KEY are links in one directory, LinkDir,   *)
(* to files in others, which a renewal writes and repoints one by one.  A  *)
(* file's content is the renewal it belongs to, 0 while it is cut short.   *)
(***************************************************************************)
EXTENDS Naturals

CONSTANTS
  LinkDir, TargetDir, \* directories: of the links, and of the files
  Gone,               \* the content of no file
  MaxChanges          \* bound: what renewals do to the disk

ASSUME ChangesBounded == MaxChanges \in Nat
ASSUME CertsNamed == LinkDir \notin TargetDir /\ Gone \notin Nat

Part == {"cert", "key"}

VARIABLES
  link,     \* part -> the directory its link leads to
  content,  \* part -> directory -> content
  served,   \* the pair of the running context
  watched,  \* the directories watchers are on
  armed,    \* debounceTimer
  reading,  \* a reload: "idle", "cert" read, "context" replaced
  read,     \* the certificate it read
  changes,
  unseen    \* history: since the last change they saw, one fell into a reload, or a file
            \* came to be where a dangling link leads

certVars == <<link, content, served, watched, armed, reading, read, changes, unseen>>

Now(part) == content[part][link[part]]

\* Mutant of WatchDirs: only the links' directory.
WatchLinks == {LinkDir}

\* rewatch: the links' directory, and those of the files that are there.
WatchDirs == {LinkDir} \cup {link[part] : part \in {p \in Part : Now(p) # Gone}}

CertsInit ==
  /\ link \in [Part -> TargetDir] /\ link["cert"] = link["key"]
  /\ content = [part \in Part |-> [dir \in TargetDir |-> IF dir = link[part] THEN 1 ELSE Gone]]
  /\ served = 1 /\ watched = WatchDirs /\ armed = FALSE
  /\ reading = "idle" /\ read = 0 /\ changes = 0 /\ unseen = FALSE

\* fs.watch calls reload; what changes while one is under way goes unseen,
\* its watchers being about to be replaced.
Notice(dir) == armed' = IF dir \in watched /\ reading = "idle" THEN TRUE ELSE armed

Changes == changes < MaxChanges /\ changes' = changes + 1
KeepWatch == UNCHANGED <<served, watched, reading, read>>

Write(part, dir, version) ==
  /\ Changes /\ version # content[part][dir]
  /\ content' = [content EXCEPT ![part][dir] = version]
  /\ unseen' = IF reading # "idle" \/ (content[part][dir] = Gone /\ dir \notin watched) THEN TRUE
               ELSE IF dir \in watched THEN FALSE ELSE unseen
  /\ Notice(dir) /\ UNCHANGED link /\ KeepWatch

Repoint(part, dir) ==
  /\ Changes /\ link[part] # dir
  /\ link' = [link EXCEPT ![part] = dir]
  /\ unseen' = (reading # "idle")
  /\ Notice(LinkDir) /\ UNCHANGED content /\ KeepWatch

\* The timer fires; the two files are read one after the other, and the
\* disk does not wait.
ReloadReadsCert ==
  /\ armed /\ armed' = FALSE
  /\ reading = "idle" /\ reading' = "cert" /\ read' = Now("cert")
  /\ UNCHANGED <<link, content, served, watched, changes, unseen>>

\* Mutant of ReloadReadsKey: two files alike replace the context, cut short or gone.
ReloadReadsAnyKey ==
  /\ reading = "cert" /\ reading' = "context"
  /\ served' = IF read = Now("key") THEN read ELSE served
  /\ UNCHANGED <<link, content, watched, armed, read, changes, unseen>>

\* setSecureContext takes a matching pair and no other.
ReloadReadsKey ==
  /\ reading = "cert" /\ reading' = "context"
  /\ served' = IF read = Now("key") /\ read \notin {0, Gone} THEN read ELSE served
  /\ UNCHANGED <<link, content, watched, armed, read, changes, unseen>>

Rewatch ==
  /\ reading = "context" /\ reading' = "idle"
  /\ watched' = WatchDirs
  /\ UNCHANGED <<link, content, served, armed, read, changes, unseen>>

-----------------------------------------------------------------------------
CertsNext ==
  \/ \E part \in Part, dir \in TargetDir : Repoint(part, dir) \/ \E version \in 0..MaxChanges \cup {Gone} : Write(part, dir, version)
  \/ ReloadReadsCert \/ ReloadReadsKey \/ Rewatch

CertsSpec == CertsInit /\ [][CertsNext]_certVars

-----------------------------------------------------------------------------
CertsTypeOK ==
  /\ link \in [Part -> TargetDir] /\ content \in [Part -> [TargetDir -> Nat \cup {Gone}]] /\ served \in Nat \ {0}
  /\ watched \subseteq {LinkDir} \cup TargetDir /\ armed \in BOOLEAN
  /\ reading \in {"idle", "cert", "context"} /\ read \in Nat \cup {Gone} /\ changes \in Nat /\ unseen \in BOOLEAN

\* However a renewal writes and repoints its files, and wherever a reload falls
\* among them, with no reload to come the pair that is there is the one served,
\* if it is a pair: a reload that found half of it left the watchers where they
\* saw the other half (reload and rewatch of embedded-broker.js).
CertsCurrent ==
  reading = "idle" /\ ~armed /\ ~unseen /\ Now("cert") \notin {0, Gone} /\ Now("cert") = Now("key") => served = Now("cert")
=============================================================================
