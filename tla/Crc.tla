--------------------------------- MODULE Crc ---------------------------------
(***************************************************************************)
(* The checks of crc8.c, crc16.c, crc32.c and checksum.c.  A register of a *)
(* CRC is the set of its bits that are one, so that exclusive or is the    *)
(* symmetric difference and every width fits; a sum is a number.           *)
(***************************************************************************)
LOCAL INSTANCE Integers
LOCAL INSTANCE Sequences
LOCAL INSTANCE SequencesExt
LOCAL INSTANCE FiniteSetsExt

CONSTANTS
    AdlerBase,  \* the modulus of checksumAdler32, 65521 in the code
    AdlerHalf   \* two to the width of its accumulators, 2^16 in the code

(* The literal tables of crc16.c and crc32.c.  An entry of the second is   *)
(* given as its high and its low half.                                     *)

Crc16Words == <<
    \h0000, \hC0C1, \hC181, \h0140, \hC301, \h03C0, \h0280, \hC241, \hC601, \h06C0, \h0780, \hC741,
    \h0500, \hC5C1, \hC481, \h0440, \hCC01, \h0CC0, \h0D80, \hCD41, \h0F00, \hCFC1, \hCE81, \h0E40,
    \h0A00, \hCAC1, \hCB81, \h0B40, \hC901, \h09C0, \h0880, \hC841, \hD801, \h18C0, \h1980, \hD941,
    \h1B00, \hDBC1, \hDA81, \h1A40, \h1E00, \hDEC1, \hDF81, \h1F40, \hDD01, \h1DC0, \h1C80, \hDC41,
    \h1400, \hD4C1, \hD581, \h1540, \hD701, \h17C0, \h1680, \hD641, \hD201, \h12C0, \h1380, \hD341,
    \h1100, \hD1C1, \hD081, \h1040, \hF001, \h30C0, \h3180, \hF141, \h3300, \hF3C1, \hF281, \h3240,
    \h3600, \hF6C1, \hF781, \h3740, \hF501, \h35C0, \h3480, \hF441, \h3C00, \hFCC1, \hFD81, \h3D40,
    \hFF01, \h3FC0, \h3E80, \hFE41, \hFA01, \h3AC0, \h3B80, \hFB41, \h3900, \hF9C1, \hF881, \h3840,
    \h2800, \hE8C1, \hE981, \h2940, \hEB01, \h2BC0, \h2A80, \hEA41, \hEE01, \h2EC0, \h2F80, \hEF41,
    \h2D00, \hEDC1, \hEC81, \h2C40, \hE401, \h24C0, \h2580, \hE541, \h2700, \hE7C1, \hE681, \h2640,
    \h2200, \hE2C1, \hE381, \h2340, \hE101, \h21C0, \h2080, \hE041, \hA001, \h60C0, \h6180, \hA141,
    \h6300, \hA3C1, \hA281, \h6240, \h6600, \hA6C1, \hA781, \h6740, \hA501, \h65C0, \h6480, \hA441,
    \h6C00, \hACC1, \hAD81, \h6D40, \hAF01, \h6FC0, \h6E80, \hAE41, \hAA01, \h6AC0, \h6B80, \hAB41,
    \h6900, \hA9C1, \hA881, \h6840, \h7800, \hB8C1, \hB981, \h7940, \hBB01, \h7BC0, \h7A80, \hBA41,
    \hBE01, \h7EC0, \h7F80, \hBF41, \h7D00, \hBDC1, \hBC81, \h7C40, \hB401, \h74C0, \h7580, \hB541,
    \h7700, \hB7C1, \hB681, \h7640, \h7200, \hB2C1, \hB381, \h7340, \hB101, \h71C0, \h7080, \hB041,
    \h5000, \h90C1, \h9181, \h5140, \h9301, \h53C0, \h5280, \h9241, \h9601, \h56C0, \h5780, \h9741,
    \h5500, \h95C1, \h9481, \h5440, \h9C01, \h5CC0, \h5D80, \h9D41, \h5F00, \h9FC1, \h9E81, \h5E40,
    \h5A00, \h9AC1, \h9B81, \h5B40, \h9901, \h59C0, \h5880, \h9841, \h8801, \h48C0, \h4980, \h8941,
    \h4B00, \h8BC1, \h8A81, \h4A40, \h4E00, \h8EC1, \h8F81, \h4F40, \h8D01, \h4DC0, \h4C80, \h8C41,
    \h4400, \h84C1, \h8581, \h4540, \h8701, \h47C0, \h4680, \h8641, \h8201, \h42C0, \h4380, \h8341,
    \h4100, \h81C1, \h8081, \h4040 >>

Crc32Highs == <<
    \h0000, \h04C1, \h0982, \h0D43, \h1304, \h17C5, \h1A86, \h1E47, \h2608, \h22C9, \h2F8A, \h2B4B,
    \h350C, \h31CD, \h3C8E, \h384F, \h4C11, \h48D0, \h4593, \h4152, \h5F15, \h5BD4, \h5697, \h5256,
    \h6A19, \h6ED8, \h639B, \h675A, \h791D, \h7DDC, \h709F, \h745E, \h9823, \h9CE2, \h91A1, \h9560,
    \h8B27, \h8FE6, \h82A5, \h8664, \hBE2B, \hBAEA, \hB7A9, \hB368, \hAD2F, \hA9EE, \hA4AD, \hA06C,
    \hD432, \hD0F3, \hDDB0, \hD971, \hC736, \hC3F7, \hCEB4, \hCA75, \hF23A, \hF6FB, \hFBB8, \hFF79,
    \hE13E, \hE5FF, \hE8BC, \hEC7D, \h3486, \h3047, \h3D04, \h39C5, \h2782, \h2343, \h2E00, \h2AC1,
    \h128E, \h164F, \h1B0C, \h1FCD, \h018A, \h054B, \h0808, \h0CC9, \h7897, \h7C56, \h7115, \h75D4,
    \h6B93, \h6F52, \h6211, \h66D0, \h5E9F, \h5A5E, \h571D, \h53DC, \h4D9B, \h495A, \h4419, \h40D8,
    \hACA5, \hA864, \hA527, \hA1E6, \hBFA1, \hBB60, \hB623, \hB2E2, \h8AAD, \h8E6C, \h832F, \h87EE,
    \h99A9, \h9D68, \h902B, \h94EA, \hE0B4, \hE475, \hE936, \hEDF7, \hF3B0, \hF771, \hFA32, \hFEF3,
    \hC6BC, \hC27D, \hCF3E, \hCBFF, \hD5B8, \hD179, \hDC3A, \hD8FB, \h690C, \h6DCD, \h608E, \h644F,
    \h7A08, \h7EC9, \h738A, \h774B, \h4F04, \h4BC5, \h4686, \h4247, \h5C00, \h58C1, \h5582, \h5143,
    \h251D, \h21DC, \h2C9F, \h285E, \h3619, \h32D8, \h3F9B, \h3B5A, \h0315, \h07D4, \h0A97, \h0E56,
    \h1011, \h14D0, \h1993, \h1D52, \hF12F, \hF5EE, \hF8AD, \hFC6C, \hE22B, \hE6EA, \hEBA9, \hEF68,
    \hD727, \hD3E6, \hDEA5, \hDA64, \hC423, \hC0E2, \hCDA1, \hC960, \hBD3E, \hB9FF, \hB4BC, \hB07D,
    \hAE3A, \hAAFB, \hA7B8, \hA379, \h9B36, \h9FF7, \h92B4, \h9675, \h8832, \h8CF3, \h81B0, \h8571,
    \h5D8A, \h594B, \h5408, \h50C9, \h4E8E, \h4A4F, \h470C, \h43CD, \h7B82, \h7F43, \h7200, \h76C1,
    \h6886, \h6C47, \h6104, \h65C5, \h119B, \h155A, \h1819, \h1CD8, \h029F, \h065E, \h0B1D, \h0FDC,
    \h3793, \h3352, \h3E11, \h3AD0, \h2497, \h2056, \h2D15, \h29D4, \hC5A9, \hC168, \hCC2B, \hC8EA,
    \hD6AD, \hD26C, \hDF2F, \hDBEE, \hE3A1, \hE760, \hEA23, \hEEE2, \hF0A5, \hF464, \hF927, \hFDE6,
    \h89B8, \h8D79, \h803A, \h84FB, \h9ABC, \h9E7D, \h933E, \h97FF, \hAFB0, \hAB71, \hA632, \hA2F3,
    \hBCB4, \hB875, \hB536, \hB1F7 >>

Crc32Lows == <<
    \h0000, \h1DB7, \h3B6E, \h26D9, \h76DC, \h6B6B, \h4DB2, \h5005, \hEDB8, \hF00F, \hD6D6, \hCB61,
    \h9B64, \h86D3, \hA00A, \hBDBD, \hDB70, \hC6C7, \hE01E, \hFDA9, \hADAC, \hB01B, \h96C2, \h8B75,
    \h36C8, \h2B7F, \h0DA6, \h1011, \h4014, \h5DA3, \h7B7A, \h66CD, \hB6E0, \hAB57, \h8D8E, \h9039,
    \hC03C, \hDD8B, \hFB52, \hE6E5, \h5B58, \h46EF, \h6036, \h7D81, \h2D84, \h3033, \h16EA, \h0B5D,
    \h6D90, \h7027, \h56FE, \h4B49, \h1B4C, \h06FB, \h2022, \h3D95, \h8028, \h9D9F, \hBB46, \hA6F1,
    \hF6F4, \hEB43, \hCD9A, \hD02D, \h7077, \h6DC0, \h4B19, \h56AE, \h06AB, \h1B1C, \h3DC5, \h2072,
    \h9DCF, \h8078, \hA6A1, \hBB16, \hEB13, \hF6A4, \hD07D, \hCDCA, \hAB07, \hB6B0, \h9069, \h8DDE,
    \hDDDB, \hC06C, \hE6B5, \hFB02, \h46BF, \h5B08, \h7DD1, \h6066, \h3063, \h2DD4, \h0B0D, \h16BA,
    \hC697, \hDB20, \hFDF9, \hE04E, \hB04B, \hADFC, \h8B25, \h9692, \h2B2F, \h3698, \h1041, \h0DF6,
    \h5DF3, \h4044, \h669D, \h7B2A, \h1DE7, \h0050, \h2689, \h3B3E, \h6B3B, \h768C, \h5055, \h4DE2,
    \hF05F, \hEDE8, \hCB31, \hD686, \h8683, \h9B34, \hBDED, \hA05A, \hE0EE, \hFD59, \hDB80, \hC637,
    \h9632, \h8B85, \hAD5C, \hB0EB, \h0D56, \h10E1, \h3638, \h2B8F, \h7B8A, \h663D, \h40E4, \h5D53,
    \h3B9E, \h2629, \h00F0, \h1D47, \h4D42, \h50F5, \h762C, \h6B9B, \hD626, \hCB91, \hED48, \hF0FF,
    \hA0FA, \hBD4D, \h9B94, \h8623, \h560E, \h4BB9, \h6D60, \h70D7, \h20D2, \h3D65, \h1BBC, \h060B,
    \hBBB6, \hA601, \h80D8, \h9D6F, \hCD6A, \hD0DD, \hF604, \hEBB3, \h8D7E, \h90C9, \hB610, \hABA7,
    \hFBA2, \hE615, \hC0CC, \hDD7B, \h60C6, \h7D71, \h5BA8, \h461F, \h161A, \h0BAD, \h2D74, \h30C3,
    \h9099, \h8D2E, \hABF7, \hB640, \hE645, \hFBF2, \hDD2B, \hC09C, \h7D21, \h6096, \h464F, \h5BF8,
    \h0BFD, \h164A, \h3093, \h2D24, \h4BE9, \h565E, \h7087, \h6D30, \h3D35, \h2082, \h065B, \h1BEC,
    \hA651, \hBBE6, \h9D3F, \h8088, \hD08D, \hCD3A, \hEBE3, \hF654, \h2679, \h3BCE, \h1D17, \h00A0,
    \h50A5, \h4D12, \h6BCB, \h767C, \hCBC1, \hD676, \hF0AF, \hED18, \hBD1D, \hA0AA, \h8673, \h9BC4,
    \hFD09, \hE0BE, \hC667, \hDBD0, \h8BD5, \h9662, \hB0BB, \hAD0C, \h10B1, \h0D06, \h2BDF, \h3668,
    \h666D, \h7BDA, \h5D03, \h40B4 >>

Bits(number) == {i \in 0 .. 15 : (number \div 2^i) % 2 = 1}
Number(bits) == MapThenSumSet(LAMBDA i : 2^i, bits)

ShiftRight(reg, n) == {i - n : i \in {j \in reg : j >= n}}
ShiftLeft(width, reg, n) == {i + n : i \in {j \in reg : j + n < width}}

(* Eight steps of the bitwise forms, towards bit 0 and away from it.       *)
EightRight(poly, reg) ==
    LET step[k \in 0 .. 8] ==
          IF k = 0 THEN reg
          ELSE LET r == step[k - 1]
               IN  IF 0 \in r THEN SymDiff(ShiftRight(r, 1), poly) ELSE ShiftRight(r, 1)
    IN  step[8]

EightLeft(width, poly, reg) ==
    LET step[k \in 0 .. 8] ==
          IF k = 0 THEN reg
          ELSE LET r == step[k - 1]
               IN  IF width - 1 \in r THEN SymDiff(ShiftLeft(width, r, 1), poly)
                   ELSE ShiftLeft(width, r, 1)
    IN  step[8]

-----------------------------------------------------------------------------
(* One byte into a check.                                                  *)

Crc8Poly == Bits(\h07)
DallasPolyPlain == Bits(\h31)  \* mutant: not reflected
DallasPoly == Bits(\h8C)
Crc16Poly == Bits(\hA001)
Crc32Poly == Bits(\h1DB7) \cup {16 + i : i \in Bits(\h04C1)}

Crc8Update(crc, byte) == EightLeft(8, Crc8Poly, SymDiff(crc, byte))
Crc8DallasUpdate(crc, byte) == EightRight(DallasPoly, SymDiff(crc, byte))
Crc16AltUpdate(crc, byte) == EightRight(Crc16Poly, SymDiff(crc, byte))
Crc32AltUpdate(crc, byte) ==
    EightLeft(32, Crc32Poly, SymDiff(crc, ShiftLeft(32, byte, 24)))

Crc16Table(index) == Bits(Crc16Words[Number(index) + 1])
Crc32Table(index) ==
    Bits(Crc32Lows[Number(index) + 1])
    \cup {16 + i : i \in Bits(Crc32Highs[Number(index) + 1])}

Crc16UpdateUnshifted(crc, byte) ==  \* mutant: the register is not shifted
    SymDiff(crc, Crc16Table(SymDiff(byte, crc) \cap 0 .. 7))
Crc16Update(crc, byte) ==
    SymDiff(ShiftRight(crc, 8), Crc16Table(SymDiff(byte, crc) \cap 0 .. 7))
Crc32Update(crc, byte) ==
    SymDiff(ShiftLeft(32, crc, 8), Crc32Table(SymDiff(ShiftRight(crc, 24), byte)))

(* A whole array.                                                          *)
Crc8Inverted(array) ==  \* mutant: inverted at the end
    SymDiff(FoldLeft(Crc8Update, {}, array), 0 .. 7)
Crc8(array) == FoldLeft(Crc8Update, {}, array)
Crc8Dallas(array) == FoldLeft(Crc8DallasUpdate, {}, array)
Crc16(array) == FoldLeft(Crc16Update, 0 .. 15, array)
Crc16Alt(array) == FoldLeft(Crc16AltUpdate, 0 .. 15, array)
Crc32(array) == FoldLeft(Crc32Update, 0 .. 31, array)
Crc32Alt(array) == FoldLeft(Crc32AltUpdate, 0 .. 31, array)

-----------------------------------------------------------------------------
(* checksum.c, over bytes that are numbers.                                *)

FletcherBase == 255

ChecksumXor(array) ==
    Number(FoldLeft(LAMBDA sum, byte : SymDiff(sum, Bits(byte)), {}, array))
ChecksumSum8(array) == FoldLeft(LAMBDA sum, byte : (sum + byte) % 2^8, 0, array)
ChecksumSum16(array) == FoldLeft(LAMBDA sum, byte : (sum + byte) % 2^16, 0, array)

(* The two accumulators of a whole array, and the result packed from them. *)
AccumulateBytes(base, first, array) ==  \* mutant: the byte summed twice
    FoldLeft(LAMBDA s, byte : <<(s[1] + byte) % base, (s[2] + byte) % base>>,
             <<first, 0>>, array)
Accumulate(base, first, array) ==
    FoldLeft(LAMBDA s, byte : LET sum1 == (s[1] + byte) % base
                              IN  <<sum1, (s[2] + sum1) % base>>,
             <<first, 0>>, array)

Fletcher16(array) ==
    LET s == Accumulate(FletcherBase, 0, array) IN s[2] * 2^8 + s[1]
Adler32(array) ==
    LET s == Accumulate(AdlerBase, 1, array) IN s[2] * AdlerHalf + s[1]

(* A byte at a time: the accumulators are unpacked from the last result.   *)
StreamedOld(base, half, checksum, byte) ==  \* mutant: the second sum takes the old first
    LET sum1 == (checksum % half)
        sum2 == (((checksum \div half) % half) + sum1) % base
    IN  sum2 * half + ((sum1 + byte) % base)
Streamed(base, half, checksum, byte) ==
    LET sum1 == ((checksum % half) + byte) % base
        sum2 == (((checksum \div half) % half) + sum1) % base
    IN  sum2 * half + sum1

Fletcher16Update(checksum, byte) == Streamed(FletcherBase, 2^8, checksum, byte)
Adler32Update(checksum, byte) == Streamed(AdlerBase, AdlerHalf, checksum, byte)
=============================================================================
