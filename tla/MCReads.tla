------------------------------ MODULE MCReads ------------------------------
(* What is read is what is stored: the three ways in which a read of a     *)
(* disc is served (image files, CD images, a disc of a client), which are  *)
(* never mounted together, the format of a CD image, and the lines of a    *)
(* text file.  A behaviour of the instance is one of these, in focus.      *)
EXTENDS IsoReadProps, CdCache, ProxyRead, CdFormat, TextLines

CONSTANTS split, enc, dvd, rip, net

VARIABLE focus

readsVars == <<isoVars, cdVars, proxyVars, formatVars, textVars, focus>>

\* A plain image in three parts, an encrypted PS3 image, and a DVD image.
MCBound == [i \in Image |-> CASE i = split -> <<0, 2, 4, 6>> [] OTHER -> <<0, 4>>]
NoHeader == [mark |-> "none", key |-> NoKey, regions |-> {}]
MCHeader == [i \in Image |->
  CASE i = split -> <<[mark |-> "Decrypted", key |-> NoKey, regions |-> {<<1, 2>>}],
                      NoHeader, NoHeader>>
    [] i = enc -> <<[mark |-> "Encrypted", key |-> i, regions |-> {<<1, 3>>}]>>
    [] OTHER -> <<NoHeader>>]
MCJunk == {[mark |-> "none", key |-> NoKey, regions |-> {<<1, 4>>}]}
NoJunk == {}

\* An encrypted image, a decrypted one that still lists its regions, and a disc
\* served over the network.
MCRegion == [d \in Disc |-> IF d = net THEN {<<2, 4>>} ELSE {<<1, 3>>}]

ReadsInit ==
  /\ focus \in {"iso", "cd", "proxy", "format", "lines"}
  /\ IsoInit /\ CdInit /\ ProxyInit /\ CdFormatInit /\ TextInit
  /\ focus # "lines" => text = <<>>
  /\ focus # "format" =>
       /\ asked = [size |-> 2352, shift |-> 8, tracks |-> 1]
       /\ stored = [size |-> 2352, header |-> 24]

ReadsNext ==
  /\ UNCHANGED focus
  /\ \/ focus = "iso" /\ IsoNext /\ UNCHANGED <<cdVars, proxyVars, textVars, formatVars>>
     \/ focus = "cd" /\ CdNext /\ UNCHANGED <<isoVars, proxyVars, textVars, formatVars>>
     \/ focus = "proxy" /\ ProxyNext /\ UNCHANGED <<isoVars, cdVars, textVars, formatVars>>
     \/ focus = "lines" /\ TextNext /\ UNCHANGED <<isoVars, cdVars, proxyVars, formatVars>>
     \/ focus = "format" /\ CdFormatNext /\ UNCHANGED <<isoVars, cdVars, proxyVars, textVars>>

ReadsSpec == ReadsInit /\ [][ReadsNext]_readsVars

-----------------------------------------------------------------------------
\* What comes from a file that is read piece by piece is what is in it: the pages of
\* a disc of a client and the sectors of a CD image, which are of the size that was
\* meant (storage_ext.c), and the lines of a list (modulespatch.c).
ServedAsStored == ProxyServed /\ FormatAsAsked /\ ListIsAsWritten
=============================================================================
