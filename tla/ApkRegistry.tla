---------------------------- MODULE ApkRegistry ----------------------------
(***************************************************************************)
(* What the APK library promises to the people who publish and download    *)
(* releases, without directories, handlers, crashes or tickets: a          *)
(* write-once catalogue.  A release id is given one APK, once; a client    *)
(* may then be told so; every upload acknowledgement and every download    *)
(* agree with the catalogue for ever.  ApkLibrary implements it.           *)
(***************************************************************************)
CONSTANTS Ids,      \* release ids
          Apks,     \* the contents that are valid APKs
          Absent    \* "nothing published under this id"

VARIABLES catalog,   \* the APK published under each id, if any
          promised   \* the <<id, apk>> pairs clients have been told of

registryVars == <<catalog, promised>>

RegistryInit == /\ catalog = [id \in Ids |-> Absent]
                /\ promised = {}

\* An id without a release gets one.
Store(id, apk) == /\ catalog[id] = Absent
                  /\ catalog' = [catalog EXCEPT ![id] = apk]
                  /\ UNCHANGED promised

\* A client is told (201 after an upload, 200 with the bytes of a download)
\* which APK the id holds.
Promise(id, apk) == /\ catalog[id] = apk
                    /\ promised' = promised \cup {<<id, apk>>}
                    /\ UNCHANGED catalog

RegistryNext == \E id \in Ids, apk \in Apks : Store(id, apk) \/ Promise(id, apk)

RegistrySpec == RegistryInit /\ [][RegistryNext]_registryVars
=============================================================================
