--------------------------- MODULE MCWalletServices ---------------------------
(* The services around the vault, each in a small instance.                   *)
EXTENDS WalletServices

CONSTANTS s1, s2

-----------------------------------------------------------------------------
(* The instances *)

\* Address usage: addresses 0 or 1 used long ago; one scan of a discovery beside one for change.
ScansOf == [s \in {s1, s2} |-> IF s = s1 THEN {"next", "prefix"} ELSE {"change"}]
LongAgo == {{0}, {1}}

\* History: the second transaction is of both addresses.
TouchedBy == [t \in {"t1", "t2", "t3"} |-> IF t = "t2" THEN {"a", "b"} ELSE {"a"}]

\* Fees: presets that fall and that rise, with and without gaps; blocks that are
\* half empty, nearly full and full, with medians below and above the minimum.
FeePresets == {[i \in 1..5 |-> CASE i = 1 -> a [] i = 2 -> b [] i = 5 -> 1000 [] OTHER -> 2000] :
                 a \in {0, 1500, 3000}, b \in {0, 2500, 4000}} \cup {NoPreset}
Blocks == [vsize: {400000, 700000, 990000}, median: {0, 900, 2100, 5001}, lowest: {0, 1000}]
BlockSequences == {<<>>} \cup {<<b>> : b \in Blocks} \cup {<<b, c>> : b, c \in Blocks} \cup
                  {<<b, [vsize |-> 990000, median |-> 4000, lowest |-> 0], c>> : b, c \in Blocks}

\* Payments: dust, one recipient, to the wallet itself, two addresses, one address twice;
\* coins so that one, two or three are needed and change is none, dust or more.
Pays(to, amount) == [to |-> to, amount |-> amount]
PaymentsAsked == {<<>>, <<Pays("x", 545)>>, <<Pays("x", 600)>>, <<Pays("x", 2000)>>, <<Pays("own", 1000)>>,
                  <<Pays("x", 600), Pays("y", 700)>>, <<Pays("x", 600), Pays("x", 700)>>}
CoinsHeld == [c \in {"a", "b", "c"} |-> IF c = "c" THEN 60000 ELSE 1400]
RateOf(sats, per) == [sats |-> sats, per |-> per]
RatesAsked == {RateOf(0, 1), RateOf(1, 1), RateOf(3, 2), RateOf(101, 1)}

\* The send panel: a coin that pays for one row at the rate of the preset, not at the one
\* the form opens with, and for two rows at neither.
CoinsListedThere == [c \in {"a"} |-> 1400]
RowsTyped == {[to |-> "x", sats |-> 545], [to |-> "x", sats |-> 1000], [to |-> "", sats |-> 1000]}
RatesTyped == {RateOf(5, 1), RateOf(0, 1)}
RatesPreset == {RateOf(3, 2)}

\* Import: each kind of text, keys of three types and both networks, one that is no
\* key, one origin that is none; frames of a set of two, of which one is there
\* with two contents, of a set of one, and one that is no frame.
Key(id, type) == [id |-> id, type |-> type, valid |-> TRUE]
Other == [kind |-> "other", key |-> NoKey, fields |-> [x \in {} |-> 0], script |-> "unknown", path |-> NoPath,
          origin |-> "none", moves |-> FALSE]
Bare(key) == [Other EXCEPT !.kind = "bare", !.key = key]
BareZpub == Bare(Key("k1", "zpub"))
Json(fields) == [Other EXCEPT !.kind = "json", !.fields = fields]
Holds(key, path) == [keys |-> [n \in {"self"} |-> key], paths |-> path]
Written(path, padded) == [path |-> path, padded |-> padded]
JsonXpub == Json([f \in {"xpub", "bip49"} |->
  IF f = "xpub" THEN Holds(Key(f, "xpub"), <<>>)
  ELSE [keys |-> [n \in {"xpub"} |-> Key(f, "xpub")], paths |-> <<Written(<<"account", 1>>, FALSE)>>]])
JsonVpub == Json([f \in {"vpub"} |-> Holds(Key(f, "vpub"), <<>>)])
\* Texts the two parsers read differently: a field of two keys, one with a descriptor
\* beside another field, and a blank path before one with blanks.
JsonTwoKeys == Json([f \in {"bip84"} |-> [keys |-> [n \in {"ypub", "zpub"} |-> Key(n, n)], paths |-> <<>>]])
JsonDescriptor == Json([f \in {"bip84", "bip44"} |->
  IF f = "bip44" THEN Holds(Key(f, "xpub"), <<>>) ELSE [keys |-> [n \in {"desc"} |-> Key(n, "zpub")], paths |-> <<>>]])
JsonBlanks == Json([f \in {"zpub"} |->
  Holds(Key(f, "zpub"), <<Written(NoPath, TRUE), Written(<<"account", 2>>, TRUE)>>)])
ImportTexts ==
  {BareZpub, Bare(Key("k2", "xpub")), Bare([Key("k6", "ypub") EXCEPT !.valid = FALSE]), JsonXpub,
   [Other EXCEPT !.kind = "descriptor", !.key = Key("k3", "tpub"), !.script = "taproot"],
   [Other EXCEPT !.kind = "origin", !.key = Key("k4", "vpub"), !.origin = "valid"],
   [Other EXCEPT !.kind = "origin", !.key = Key("k5", "zpub"), !.origin = "invalid"],
   [Other EXCEPT !.kind = "ur", !.key = Key("k7", "zpub"), !.moves = TRUE],
   JsonVpub, JsonTwoKeys, JsonDescriptor, JsonBlanks,
   [Other EXCEPT !.kind = "private"]}
Frame(total, index, data) ==
  [header |-> [encoding |-> "2", fileType |-> "J", total |-> total], index |-> index, data |-> data]
Frames == {Frame(2, 0, "a"), Frame(2, 1, "b"), Frame(2, 1, "c"), Frame(1, 0, "d"), Frame(1, 1, "e")}
TwoFrames == (0 :> "a") @@ (1 :> "b")
OneFrame  == 0 :> "d"
DecodedTexts == [d \in {TwoFrames, OneFrame} |-> IF d = OneFrame THEN BareZpub ELSE JsonXpub]
OldVaults ==
  {{}, {[wallet |-> [key |-> Key("k8", "xpub"), script |-> "p2wpkh", network |-> "mainnet", path |-> NoPath],
         shown |-> [key |-> "k8", script |-> "native-segwit", coin |-> 0, path |-> <<"native-segwit", 0>>]]}}

\* Labels: two addresses and one that is none, an id in two spellings.
AddressesLabelled == {[chain |-> "receive", index |-> 0], [chain |-> "change", index |-> 0],
                      [chain |-> "receive", index |-> -1]}
TxidsLabelled == {[id |-> "t1", upper |-> u] : u \in BOOLEAN}
=============================================================================
