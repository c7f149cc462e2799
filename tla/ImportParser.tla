----------------------------- MODULE ImportParser -----------------------------
(***************************************************************************)
(* What a text to import is taken for, twice: by the web page as it is     *)
(* typed (detectImportMetadata in phase-one-auth.tsx) and by the API       *)
(* (parseWalletImport in vault/import-parser.ts).  A text is a record: the *)
(* kind its first matching pattern gives it and what the pattern captures. *)
(*                                                                         *)
(*   kind    "empty", "private", "bbqr", "psbt", "json", "ur",             *)
(*           "descriptor", "origin" ([fingerprint/path]key), "bare",       *)
(*           "other"; a "bbqr" that is one whole frame holds a JSON text   *)
(*   key     an extended public key [id, type, valid], or NoKey            *)
(*   fields  those of a JSON text: what each holds by name, "self" for a   *)
(*           field that is a string itself, a key or NoKey, and the paths  *)
(*           written for it, in the order they are looked for              *)
(*   script  that of a descriptor                                          *)
(*   path    the account path of the origin, or NoPath                     *)
(*   origin  "valid", "invalid" or "none"                                  *)
(***************************************************************************)
EXTENDS Integers, Sequences, SequencesExt

Networks    == {"mainnet", "testnet", "signet"}
KeyTypes    == {"xpub", "ypub", "zpub", "tpub", "upub", "vpub"}
TestTypes   == {"tpub", "upub", "vpub"}
AddressTypes == {"legacy", "nested-segwit", "native-segwit", "taproot"}

NoKey  == [id |-> "none", type |-> "none", valid |-> FALSE]
NoPath == <<>>

KeyScript(key) == CASE key.type \in {"ypub", "upub"} -> "nested-segwit"
                    [] key.type \in {"zpub", "vpub"} -> "native-segwit"
                    [] OTHER -> "unknown"

KeyNetwork(key) == IF key.type \in TestTypes THEN "testnet" ELSE "mainnet"

\* accountPathFor: the purpose follows the script, the coin the network.
PathFor(script, network) ==
  IF script \in AddressTypes THEN <<script, IF network = "mainnet" THEN 0 ELSE 1>> ELSE NoPath

PathOr(path, default) == IF path = NoPath THEN default ELSE path

\* The fields of a JSON text that may hold the key, and the script each stands for.
SegwitFields == <<<<"bip84", "native-segwit">>, <<"p2wpkh", "native-segwit">>, <<"zpub", "native-segwit">>,
                  <<"bip49", "nested-segwit">>, <<"p2sh_p2wpkh", "nested-segwit">>, <<"ypub", "nested-segwit">>>>
OtherFields  == <<<<"bip44", "legacy">>, <<"p2pkh", "legacy">>, <<"bip86", "taproot">>, <<"p2tr", "taproot">>,
                  <<"taproot", "taproot">>, <<"xpub", "unknown">>>>
WebFields    == SegwitFields \o OtherFields
ServerFields == WebFields \o <<<<"tpub", "unknown">>, <<"upub", "nested-segwit">>, <<"vpub", "native-segwit">>>>

\* The names that the page and the API look for a key under; the first that is
\* there counts, whatever it holds.
WebNames    == <<"self", "_pub", "xpub", "ypub", "zpub", "tpub", "upub", "vpub", "value">>
ServerNames == <<"self", "_pub", "xpub", "zpub", "ypub", "tpub", "upub", "vpub", "value", "desc">>

KeyIn(field, names) ==
  LET there == {i \in DOMAIN names : names[i] \in DOMAIN field.keys}
  IN  IF there = {} THEN NoKey ELSE field.keys[names[Min(there)]]

\* A path is read as it was written, blanks and all; a string's, by the API only,
\* without its blanks, and one that is nothing else is passed over.
AsWritten(written) == IF written.padded THEN Append(written.path, "padded") ELSE written.path

PathIn(field, trims) ==
  LET there == {i \in DOMAIN field.paths : field.paths[i].path # NoPath}
  IN  IF trims /\ "self" \in DOMAIN field.keys
      THEN IF there = {} THEN NoPath ELSE field.paths[Min(there)].path
      ELSE IF field.paths = <<>> THEN NoPath ELSE AsWritten(field.paths[1])

\* A parser of JSON: the fields and the names it looks at, and whether it trims.
Web    == [fields |-> WebFields, names |-> WebNames, trims |-> FALSE]
Server == [fields |-> ServerFields, names |-> ServerNames, trims |-> TRUE]

\* The first of its fields that holds a key, as [key, script, path].
NoCandidate == [key |-> NoKey, script |-> "unknown", path |-> NoPath]

FieldCandidate(field, script, reader) ==
  LET key == KeyIn(field, reader.names)
  IN  [key |-> key, script |-> script,
       path |-> PathOr(PathIn(field, reader.trims), PathFor(script, KeyNetwork(key)))]

HoldsKey(text, name, reader) == name \in DOMAIN text.fields /\ KeyIn(text.fields[name], reader.names) # NoKey

Candidate(text, reader) ==
  LET there == {i \in DOMAIN reader.fields : HoldsKey(text, reader.fields[i][1], reader)}
      first == reader.fields[Min(there)]
  IN  IF there = {} THEN NoCandidate ELSE FieldCandidate(text.fields[first[1]], first[2], reader)

\* A text holds a key that its kind lets out.
HasKey(text, reader) ==
  CASE text.kind \in {"json", "bbqr"} -> Candidate(text, reader) # NoCandidate
    [] text.kind \in {"descriptor", "origin"} -> text.key # NoKey /\ text.origin # "invalid"
    [] text.kind \in {"ur", "bare"} -> text.key # NoKey
    [] OTHER -> FALSE

-----------------------------------------------------------------------------
(* The page *)

Undetected == [key |-> NoKey, network |-> "none", script |-> "unknown", path |-> NoPath]

DetectedKey(key, script, path) == [key |-> key, network |-> KeyNetwork(key), script |-> script, path |-> path]

DetectedJson(text) ==
  LET found == Candidate(text, Web) IN DetectedKey(found.key, found.script, found.path)

DetectedUr(text) == DetectedKey(text.key, KeyScript(text.key), NoPath)

\* The path of a script that has none follows the network chosen.
DetectedDescriptor(text, network) ==
  DetectedKey(text.key, text.script, PathOr(text.path, PathFor(text.script, network)))

DetectedExpression(text, network) ==
  DetectedKey(text.key, KeyScript(text.key), PathOr(text.path, PathFor(KeyScript(text.key), network)))

\* It follows the key's own network.
DetectedBare(text) ==
  DetectedKey(text.key, KeyScript(text.key), PathFor(KeyScript(text.key), KeyNetwork(text.key)))

\* detectImportMetadata
Detected(text, network) ==
  IF ~HasKey(text, Web) THEN Undetected
  ELSE CASE text.kind \in {"json", "bbqr"} -> DetectedJson(text)
         [] text.kind = "ur" -> DetectedUr(text)
         [] text.kind = "descriptor" -> DetectedDescriptor(text, network)
         [] text.kind = "origin" -> DetectedExpression(text, network)
         [] OTHER -> DetectedBare(text)

\* classifyQrFrame: what a scanned code may be, a code that moves apart.
Importable(text) ==
  \/ text.kind \in {"ur", "descriptor", "bare"}
  \/ text.kind = "origin" /\ text.origin = "valid"
  \/ /\ text.kind = "json"
     /\ \E f \in DOMAIN text.fields : \E n \in DOMAIN text.fields[f].keys : text.fields[f].keys[n] # NoKey

-----------------------------------------------------------------------------
(* The API *)

\* parsedFromKey: the network is the key's, the path found or that of the script.
FromKey(key, script, path) ==
  [key |-> key, network |-> KeyNetwork(key), script |-> script,
   path |-> PathOr(path, PathFor(script, KeyNetwork(key)))]

\* parseColdcardLikeJson
FoundJson(text) == LET found == Candidate(text, Server) IN FromKey(found.key, found.script, found.path)

\* parseUr: the key as it stands, of no script type, and the network asked for.
FoundUr(text, network) == [key |-> text.key, network |-> network, script |-> "unknown", path |-> NoPath]

\* parseDescriptor
FoundDescriptor(text, network) ==
  FromKey(text.key, text.script, PathOr(text.path, PathFor(text.script, network)))

\* parseKeyExpression
FoundExpression(text) == FromKey(text.key, KeyScript(text.key), text.path)

FoundIn(text, network) ==
  CASE text.kind \in {"json", "bbqr"} -> FoundJson(text)
    [] text.kind = "ur" -> FoundUr(text, network)
    [] text.kind = "descriptor" -> FoundDescriptor(text, network)
    [] text.kind = "origin" -> FoundExpression(text)
    [] OTHER -> FromKey(text.key, KeyScript(text.key), NoPath)

\* applyOverrides: a network asked for, unless the key is one of a test
\* network, and a script type asked for; the path found stays.
Overridden(found, network, script) ==
  LET net == IF found.key.type \in TestTypes THEN found.network ELSE network
      type == IF script # "unknown" THEN script ELSE found.script
  IN  [found EXCEPT !.network = net, !.script = type, !.path = PathOr(@, PathFor(type, net))]

\* parseWalletImport, for texts that it finds a key in
Parsed(text, network, script) == Overridden(FoundIn(text, network), network, script)
=============================================================================
