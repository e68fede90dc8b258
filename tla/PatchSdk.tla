------------------------------ MODULE PatchSdk ------------------------------
(***************************************************************************)
(* dispar --patch-...-sdk-version (main.cc): parse the binary, replace the *)
(* target version of each of its objects, and write the changed sections   *)
(* back.  Versions are two numbers; the file keeps them in one word, with  *)
(* a third number that the program has no name for.                        *)
(***************************************************************************)
EXTENDS MachO

CONSTANTS
  Requests,  \* what may be asked for: [platform, version]
  List       \* the version that only lists

\* A version that "X.Y" can ask for; the second number fits its byte.
ASSUME RequestAssumption ==
  \A r \in Requests :
    /\ r.platform \in Platforms
    /\ r.version # List => r.version \in (0..255) \X (0..255)

VARIABLES
  request,  \* the options of the command line
  step,     \* "loading", "patching", "saving" or "exited"
  next,     \* handlePatchSdk: index of the object whose turn it is
  patched,  \* the <<object, section>> that were modified
  exit      \* exit code

patchVars == <<request, step, next, patched, exit>>
sdkVars == <<parserVars, patchVars>>

PatchTypeOK ==
  /\ ParserTypeOK
  /\ request \in Requests
  /\ step \in {"loading", "patching", "saving", "exited"}
  /\ next \in 1..Len(objects) + 1
  /\ patched \in SUBSET (Nat \X Nat)
  /\ exit \in {0, 1}

PatchInit ==
  /\ ParserInit
  /\ request \in Requests
  /\ step = "loading"
  /\ next = 1
  /\ patched = {}
  /\ exit = 0

\* loadFile: the loader thread parses while main waits for it.
Load ==
  /\ step = "loading"
  /\ ParserNext
  /\ UNCHANGED patchVars

LoadFails ==
  /\ step = "loading" /\ phase = "failed"
  /\ step' = "exited" /\ exit' = 1
  /\ UNCHANGED <<parserVars, request, next, patched>>

Loaded ==
  /\ step = "loading" /\ phase = "parsed"
  /\ step' = "patching"
  /\ UNCHANGED <<parserVars, request, next, patched, exit>>

-----------------------------------------------------------------------------
(***************************************************************************)
(* Util::decodeMacSdkVersion and encodeMacSdkVersion                       *)
(***************************************************************************)

\* The mask leaves four bits of the second number.
Decode(word) == <<word \div 65536, (word % 4096) \div 256>>
Encode(version) == version[1] * 65536 + version[2] * 256

(***************************************************************************)
(* handlePatchSdk                                                          *)
(***************************************************************************)
\* Indices of the sections of the platform; the first is the one that is used.
Candidates(i) == Having(objects[i].sections, request.platform)

\* MacSdkVersionPatcher is valid with exactly two words of data.
Patchable(i) ==
  Candidates(i) # {} /\ Len(objects[i].sections[Lowest(Candidates(i))].data) = 2

TargetOf(i) == Decode(objects[i].sections[Lowest(Candidates(i))].data[1])

\* Mutant: only the first object is looked at.
PatchObjectFirst ==
  /\ step = "patching" /\ next \in DOMAIN objects
  /\ next' = Len(objects) + 1
  /\ IF request.version # List /\ Patchable(next) /\ TargetOf(next) # request.version
     THEN LET j == Lowest(Candidates(next)) IN
          /\ objects' = [objects EXCEPT ![next].sections[j].data[1] = Encode(request.version)]
          /\ patched' = patched \cup {<<next, j>>}
     ELSE UNCHANGED <<objects, patched>>
  /\ UNCHANGED <<phase, whole, file, pos, order, archs, left, object, request, step, exit>>

\* One object: without a usable section, or with the version that is asked for,
\* it is left alone.
PatchObject ==
  /\ step = "patching" /\ next \in DOMAIN objects
  /\ next' = next + 1
  /\ IF request.version # List /\ Patchable(next) /\ TargetOf(next) # request.version
     THEN LET j == Lowest(Candidates(next)) IN
          /\ objects' = [objects EXCEPT ![next].sections[j].data[1] = Encode(request.version)]
          /\ patched' = patched \cup {<<next, j>>}
     ELSE UNCHANGED <<objects, patched>>
  /\ UNCHANGED <<phase, whole, file, pos, order, archs, left, object, request, step, exit>>

\* Nothing to save is a success.
PatchDone ==
  /\ step = "patching" /\ next > Len(objects)
  /\ step' = IF patched = {} THEN "exited" ELSE "saving"
  /\ UNCHANGED <<parserVars, request, next, patched, exit>>

\* Mutant: the word behind the first is written.
SaveFileBehind ==
  /\ step = "saving"
  /\ step' = "exited"
  /\ file' = [b \in DOMAIN file |->
       LET here == {x \in patched : objects[x[1]].sections[x[2]].offset + 2 = b}
           x == CHOOSE x \in here : TRUE
       IN  IF here = {} THEN file[b] ELSE objects[x[1]].sections[x[2]].data[1]]
  /\ UNCHANGED <<phase, whole, pos, order, archs, left, object, objects, request, next, patched, exit>>

\* saveFile and Format::write: the one region of each patched section, its
\* first word, goes to the offset of the section.
SaveFile ==
  /\ step = "saving"
  /\ step' = "exited"
  /\ file' = [b \in DOMAIN file |->
       LET here == {x \in patched : objects[x[1]].sections[x[2]].offset + 1 = b}
           x == CHOOSE x \in here : TRUE
       IN  IF here = {} THEN file[b] ELSE objects[x[1]].sections[x[2]].data[1]]
  /\ UNCHANGED <<phase, whole, pos, order, archs, left, object, objects, request, next, patched, exit>>

\* The file cannot be opened for writing.
SaveFileFails ==
  /\ step = "saving"
  /\ step' = "exited" /\ exit' = 1
  /\ UNCHANGED <<parserVars, request, next, patched>>

PatchNext ==
  \/ Load \/ LoadFails \/ Loaded
  \/ PatchObject \/ PatchDone
  \/ SaveFile \/ SaveFileFails

PatchSpec == PatchInit /\ [][PatchNext]_sdkVars

-----------------------------------------------------------------------------
(***************************************************************************)
(* Properties                                                              *)
(***************************************************************************)

\* The target words of the commands of the platform, in all objects.
TargetsIn(f, b, platform) ==
  {Starts(f, b)[i] + 2 : i \in {k \in Commands(f, b) :
     LET t == f[Starts(f, b)[k] + 1] IN t \in VersionMin /\ VersionSection[t] = platform}}
Targets(f, platform) == UNION {TargetsIn(f, Bases(f)[i], platform) : i \in DOMAIN Bases(f)}

\* Whatever is asked of a file of well-known commands, nothing else in it
\* changes than the target versions of that platform.
PatchesOnlyTargets ==
  [][UnderstoodFile =>
       \A b \in DOMAIN file : file'[b] # file[b] => b - 1 \in Targets(whole, request.platform)]_sdkVars

\* By the format: the second number is a whole byte, the third is not asked for.
VersionAt(p) == <<file[p + 1] \div 65536, (file[p + 1] \div 256) % 256>>

\* A patch that reports success has given every object that has a target the
\* version that was asked for.  Only for files whose second numbers fit the
\* four bits that decodeMacSdkVersion looks at, and for the first command of
\* the platform in each object.
ShortNumbers == \A p \in Targets(whole, request.platform) : (whole[p + 1] \div 256) % 256 < 16
PatchTakesEffect ==
  step = "exited" /\ exit = 0 /\ request.version # List /\ UnderstoodFile /\ ShortNumbers =>
    \A i \in DOMAIN Bases(whole) :
      LET ps == TargetsIn(whole, Bases(whole)[i], request.platform) IN ps # {} => VersionAt(Lowest(ps)) = request.version
=============================================================================
