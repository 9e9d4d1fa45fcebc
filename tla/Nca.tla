--------------------------------- MODULE Nca ---------------------------------
(***************************************************************************)
(* An NCA as crypto/nca.cpp sees it: ncaParseHeader, ncaDecryptSection and *)
(* ncaExtractCnmt, with the keys of Keyset.                                *)
(*                                                                         *)
(* Decryption is what it does to the reader: with the right key there is   *)
(* the plain text, with any other bytes that hold no magic.  Section 0 is  *)
(* inside of the NCA or not, and its PFS0 holds files, of which the one    *)
(* that is read is inside of the section or not.                           *)
(***************************************************************************)
EXTENDS Keyset, Cnmt

Files == [isCnmt : BOOLEAN, inside : BOOLEAN, cnmt : Cnmts]

Images == [nca3 : BOOLEAN,                       \* an NCA3, and not cut off in its header
           meta : BOOLEAN,                       \* content type Meta
           kaek : 0..3,                          \* key area encryption key index
           old : Nat, new : Nat,                 \* the two key generation fields
           section : BOOLEAN,                    \* section 0 is in bounds
           enc : {"none", "ctr", "other"},       \* its encryption type
           files : Seq(Files)]                   \* its PFS0

(* The key table of an index, and the generation counted from 0. *)
KeyTable(img) ==
  CASE img.kaek = 1 -> "ocean" [] img.kaek = 2 -> "system" [] OTHER -> "application"
Newest(img) == IF img.old > img.new THEN img.old ELSE img.new
Generation(img) == IF Newest(img) > 0 THEN Newest(img) - 1 ELSE 0

(* ncaParseHeader: a missing key of the generation goes unnoticed here. *)
ParsesHeader(ks, img) ==
  /\ ks # NoKeyset /\ ks.hasHeader /\ ks.header = "right"
  /\ img.nca3 /\ Generation(img) < MaxGen

(* ncaDecryptSection brings the plain text. *)
DecryptsSection(ks, img) ==
  \/ img.enc = "none"
  \/ img.enc = "ctr" /\ ks.kak[KeyTable(img), Generation(img)] = "right"

(* The first file of the section's PFS0 whose name has ".cnmt" in it. *)
HasCnmt(img) == \E k \in DOMAIN img.files : img.files[k].isCnmt
CnmtFile(img) ==
  img.files[CHOOSE k \in DOMAIN img.files :
              img.files[k].isCnmt /\ \A j \in 1..k - 1 : ~img.files[j].isCnmt]

(* ncaExtractCnmt: a file outside of the section comes as zeroes. *)
Extracted(img) ==
  IF CnmtFile(img).inside THEN CnmtFile(img).cnmt ELSE ZeroFilled(CnmtFile(img).cnmt.len)

(* It brings something, which is all its callers look for. *)
ExtractsCnmt(ks, img) ==
  /\ ParsesHeader(ks, img) /\ img.meta /\ img.section
  /\ DecryptsSection(ks, img)
  /\ HasCnmt(img) /\ Extracted(img).len > 0

=============================================================================
