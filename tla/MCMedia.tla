------------------------------ MODULE MCMedia ------------------------------
(* What the payload does for discs beside their reads, for the emulators   *)
(* of PSP and PS2 and for licences.  The components share nothing: a       *)
(* behaviour of the instance is one of the component in focus.             *)
EXTENDS DriveCommands, RealDisc, DiscAuth, Ps2Boot, PspUmd, LicenceFiles, RifKey, TLC

CONSTANTS r1, r2, i1, i2, setter, none

VARIABLE focus

media_vars == <<driveVars, realDiscVars, authVars, bootVars, umdVars, licenceVars, rifKeyVars, focus>>

Image(kind, tracks, sectors, lsd) ==
  [kind |-> kind, tracks |-> tracks, sectors |-> sectors, lsd |-> lsd]
MCDisc == {
  Image("cd", <<0, 2, 5>>, 7, <<>>),
  Image("cd", <<0>>, 8, <<1, 2, 5, 6>>),
  Image("cd", <<0>>, 6, <<1, 3>>),
  Image("proxy", <<0, 3>>, 5, <<>>),
  Image("cd2048", <<0>>, 4, <<>>),
  Image("iso", <<0>>, 4, <<>>)}

MCXor ==
  [a \in Byte |-> [b \in Byte |-> ((a + b) % 2) + 2 * ((a \div 2 + b \div 2) % 2)]]
MCPbox == [i \in Place |-> (i + 1) % KeySize]
MCE1 == [i \in Place |-> (i + 1) % Base]
MCE2 == {[i \in Place |-> 0], [i \in Place |-> Base - 1], [i \in Place |-> i % Base]}

\* Where a component that is not in focus stays, if it may begin in several ways.
Pinned ==
  /\ focus # "boot" => console = "sw"
  /\ focus # "licence" => \A u \in User : actdat[u] = NoAct
  /\ focus # "rifkey" => key = [p \in Place |-> 0] /\ e2 = [p \in Place |-> 0]

MediaInit ==
  /\ focus \in {"drive", "auth", "boot", "umd", "licence", "realdisc", "rifkey"}
  /\ DriveInit /\ AuthInit /\ BootInit /\ UmdInit /\ LicenceInit
  /\ RealDiscInit /\ RifKeyInit
  /\ Pinned

MediaNext ==
  /\ UNCHANGED focus
  /\ \/ /\ focus = "drive" /\ DriveNext
        /\ UNCHANGED <<authVars, bootVars, umdVars, licenceVars, realDiscVars, rifKeyVars>>
     \/ /\ focus = "auth" /\ AuthNext
        /\ UNCHANGED <<driveVars, bootVars, umdVars, licenceVars, realDiscVars, rifKeyVars>>
     \/ /\ focus = "boot" /\ BootNext
        /\ UNCHANGED <<driveVars, authVars, umdVars, licenceVars, realDiscVars, rifKeyVars>>
     \/ /\ focus = "umd" /\ UmdNext
        /\ UNCHANGED <<driveVars, authVars, bootVars, licenceVars, realDiscVars, rifKeyVars>>
     \/ /\ focus = "licence" /\ LicenceNext
        /\ UNCHANGED <<driveVars, authVars, bootVars, umdVars, realDiscVars, rifKeyVars>>
     \/ /\ focus = "realdisc" /\ RealDiscNext
        /\ UNCHANGED <<driveVars, authVars, bootVars, umdVars, licenceVars, rifKeyVars>>
     \/ /\ focus = "rifkey" /\ RifKeyNext
        /\ UNCHANGED <<driveVars, authVars, bootVars, umdVars, licenceVars, realDiscVars>>

MediaSpec == MediaInit /\ [][MediaNext]_media_vars

-----------------------------------------------------------------------------
\* What is known of the disc in the drive: no thread that works on it keeps what it
\* took (storage_ext.c 1744-1971), and a disc without an image is what it holds.
DiscsAreKnown == NothingHeldAtRest /\ RealDiscsAreKnown

\* A licence made from an activation key is of its content and its user, and its key
\* keeps what tells two activation keys apart (make_rif.c).
LicencesAreRight == RifOfItsContent /\ RifKeyIsWhole

\* The readers of UMD images are also the threads that open licences, and the images
\* the contents: one symmetry serves both.
Symmetric == Permutations({r1, r2}) \cup Permutations({i1, i2})
=============================================================================
