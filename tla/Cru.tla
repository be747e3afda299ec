-------------------------------- MODULE Cru --------------------------------
(***************************************************************************)
(* The clock and reset unit of the RK3399, CRULib: PLLs that feed trees of *)
(* dividers, programmed by sequences of register writes, with a spin on    *)
(* the lock bit of each PLL.  Every write is a step; the PLLs lock in      *)
(* their own time.                                                         *)
(*                                                                         *)
(* A divider register has sixteen bits, and a write to it says which of    *)
(* them it changes: a bit outside the mask keeps what it held.  The code   *)
(* gives some masks without their shift, so that stale bits stay in the    *)
(* field: the model keeps a register as the set of its bits that are one.  *)
(* Frequencies are whole kHz; where the code halves a rate, it halves Hz.  *)
(***************************************************************************)
EXTENDS Integers, Sequences

CONSTANTS
  Resets,      \* the values a divider register may have at reset
  CpuClusters, \* the clusters that are reconfigured after the start
  BusRates,    \* rates asked of rk3399_hdcp_set_clk and rk3399_vio_set_clk
  PixelRates,  \* rates asked of rk3399_vop_set_clk
  MaxCalls     \* bound on the calls after the start

CPU_CLUSTER_LITTLE == "little"
CPU_CLUSTER_BIG == "big"
Clusters == {CPU_CLUSTER_LITTLE, CPU_CLUSTER_BIG}

ASSUME ResetAssumption == Resets \subseteq SUBSET (0 .. 15)
ASSUME ClusterAssumption == CpuClusters \subseteq Clusters
ASSUME BoundAssumption == MaxCalls \in Nat

MHz == 1000
OSC_HZ == 24 * MHz
GPLL_HZ == 800 * MHz

ASSUME RateAssumption ==
  /\ \A khz \in BusRates : khz \in Nat /\ 1 <= khz /\ khz <= GPLL_HZ
  /\ PixelRates \subseteq Nat \ {0}

VARIABLES
  pll,       \* what the registers of each PLL hold, and its lock bit
  clksel,    \* what the divider registers hold
  todo,      \* the register accesses the running function has yet to make
  asked,     \* what each consumer was last set to, 0 before that
  asserted,  \* an assertion has failed; a RELEASE build goes on
  outside,   \* history: a rate was asked for that the unit, or the search, cannot give
  calls      \* how many calls were made after the start

vars == <<pll, clksel, todo, asked, asserted, outside, calls>>

PLLs == {"ppll", "apll_l", "apll_b", "cpll", "gpll", "npll", "vpll"}
PmuClksel0 == 108    \* pmucru_clksel[0], numbered after the clksel_con
Registers == {0, 1, 2, 3, 12, 14, 19, 21, 22, 23, 25, 42, 43, 47, 48, 49, 50, 51, 52, 56,
              PmuClksel0}

\* What PLL_DIVISORS makes of a frequency.
PLL_DIVISORS(khz, refdiv, postdiv1, postdiv2) ==
  [refdiv |-> refdiv, fbdiv |-> (khz * refdiv * postdiv1 * postdiv2) \div OSC_HZ,
   postdiv1 |-> postdiv1, postdiv2 |-> postdiv2]

InitFrequency == [ppll |-> 676 * MHz, gpll |-> GPLL_HZ, npll |-> 1000 * MHz, cpll |-> 800 * MHz]
InitDivisors == [ppll |-> PLL_DIVISORS(676 * MHz, 2, 2, 1),
                 gpll |-> PLL_DIVISORS(GPLL_HZ, 1, 3, 1),
                 npll |-> PLL_DIVISORS(1000 * MHz, 1, 3, 1),
                 cpll |-> PLL_DIVISORS(800 * MHz, 1, 3, 1)]

apll_cfgs(khz) ==
  CASE khz = 1700 * MHz -> PLL_DIVISORS(khz, 1, 1, 1)
    [] khz = 1600 * MHz -> PLL_DIVISORS(khz, 3, 1, 1)
    [] khz = 1300 * MHz -> PLL_DIVISORS(khz, 1, 1, 1)
    [] khz = 816 * MHz -> PLL_DIVISORS(khz, 1, 2, 1)
    [] khz = 600 * MHz -> PLL_DIVISORS(khz, 1, 2, 1)

ApllFrequencies == {1700 * MHz, 1600 * MHz, 1300 * MHz, 816 * MHz, 600 * MHz}

(***************************************************************************)
(* Register accesses.                                                      *)
(***************************************************************************)
Bits(shift, width) == shift .. shift + width - 1

PowersOf2 == <<1, 2, 4, 8, 16, 32, 64, 128, 256, 512, 1024, 2048, 4096, 8192, 16384, 32768>>

\* The bits of n << shift in a word of 32 bits, for an n of 16 bits.
At(n, shift) ==
  {b \in 0 .. 31 : b - shift \in 0 .. 15 /\ (n \div PowersOf2[b - shift + 1]) % 2 = 1}

\* rk_clrsetreg writes ((clr | set) << 16) | set: the upper half says which bits
\* of the register change.
ClrSet(reg, clr, set) ==
  [op |-> "write", reg |-> reg, set |-> set \cap 0 .. 15,
   mask |-> ((clr \cup set) \cap 0 .. 15) \cup {b - 16 : b \in set \cap 16 .. 31}]

Assert(holds) == [op |-> "assert", holds |-> holds]

PllOp(op, p, div) == [op |-> op, pll |-> p, div |-> div]

VcoInRange(vco) == 800 * MHz <= vco /\ vco <= 3200 * MHz

PllInRange(div) ==
  LET vco == (OSC_HZ * div.fbdiv) \div div.refdiv
      output == (vco \div div.postdiv1) \div div.postdiv2
  IN VcoInRange(vco) /\ 16 * MHz <= output /\ output <= 3200 * MHz /\ div.fbdiv \in 16 .. 3200

\* Mistake: the PLL is programmed while it feeds its consumers.
SetPllInNormalMode(p, div) ==
  << Assert(PllInRange(div)), PllOp("integer", p, div), PllOp("fbdiv", p, div),
     PllOp("divisors", p, div), PllOp("lock", p, div), PllOp("normal", p, div) >>

rkclk_set_pll(p, div) ==
  << Assert(PllInRange(div)), PllOp("slow", p, div), PllOp("integer", p, div),
     PllOp("fbdiv", p, div), PllOp("divisors", p, div), PllOp("lock", p, div),
     PllOp("normal", p, div) >>

DIV_ROUND_UP(n, d) == (n + d - 1) \div d

\* A divider that gives at least a rate, and one that gives at most that rate.
AtLeast(parent, rate) == (parent \div rate) - 1

AtMost(parent, rate) == DIV_ROUND_UP(parent, rate) - 1

(***************************************************************************)
(* The functions of CRULib, as the accesses they make.                     *)
(***************************************************************************)
\* Mistake: both clusters use the registers of the little one.
SameBase(cluster) == 0

ConBase(cluster) == IF cluster = CPU_CLUSTER_LITTLE THEN 0 ELSE 2

ApllOf(cluster) == IF cluster = CPU_CLUSTER_LITTLE THEN "apll_l" ELSE "apll_b"

\* The masks of the aclkm and debug dividers and of the parent lack their shift.
rk3399_configure_cpu(khz, cluster) ==
  LET aclkm_div == AtLeast(khz, 300 * MHz)
      pclk_dbg_div == AtLeast(khz, 100 * MHz)
      atclk_div == AtLeast(khz, 300 * MHz)
      parent == IF cluster = CPU_CLUSTER_LITTLE THEN 0 ELSE 1
  IN rkclk_set_pll(ApllOf(cluster), apll_cfgs(khz)) \o
     << Assert(\A d \in {aclkm_div, pclk_dbg_div, atclk_div} : 0 <= d /\ d < 31),
        ClrSet(ConBase(cluster), Bits(0, 5), At(aclkm_div, 8) \cup At(parent, 6)),
        ClrSet(ConBase(cluster) + 1, Bits(0, 5), At(pclk_dbg_div, 8) \cup At(atclk_div, 0)) >>

rk3399_pmu_clock_init ==
  rkclk_set_pll("ppll", InitDivisors.ppll) \o
  << ClrSet(PmuClksel0, Bits(0, 5), At(AtLeast(676 * MHz, 48 * MHz), 0)) >>

\* A bus of the peripherals: ACLK off the GPLL, HCLK and PCLK off ACLK.
BusRegister(reg, aclk, hclk, pclk) ==
  LET aclk_div == AtMost(GPLL_HZ, aclk)
      hclk_div == AtLeast(aclk, hclk)
      pclk_div == AtLeast(aclk, pclk)
  IN << Assert(hclk_div <= 3 /\ pclk_div <= 7),
        ClrSet(reg, Bits(12, 3) \cup Bits(8, 2) \cup {7} \cup Bits(0, 5),
               At(pclk_div, 12) \cup At(hclk_div, 8) \cup {7} \cup At(aclk_div, 0)) >>

\* The mask of register 25 leaves out the divider of HCLK.
rk3399_clock_init ==
  rk3399_configure_cpu(816 * MHz, CPU_CLUSTER_LITTLE) \o
  rk3399_configure_cpu(816 * MHz, CPU_CLUSTER_BIG) \o
  << ClrSet(12, 0 .. 15, {14, 8, 0}), ClrSet(19, 0 .. 15, {9, 8} \cup Bits(0, 6)),
     ClrSet(56, {1, 0}, {1, 0}) >> \o
  rkclk_set_pll("gpll", InitDivisors.gpll) \o
  rkclk_set_pll("npll", InitDivisors.npll) \o
  rkclk_set_pll("cpll", InitDivisors.cpll) \o
  BusRegister(14, 150 * MHz, 75 * MHz, 37500) \o
  BusRegister(23, 300 * MHz, 100 * MHz, 50 * MHz) \o
  << ClrSet(25, Bits(8, 3) \cup {7},
            At(AtLeast(100 * MHz, 50 * MHz), 8) \cup {7} \cup At(AtMost(GPLL_HZ, 100 * MHz), 0)),
     ClrSet(21, {7} \cup Bits(0, 5), {7, 1, 0}),
     ClrSet(22, Bits(0, 6), Bits(0, 3)) >>

ArmPlatformInitialize ==
  rk3399_pmu_clock_init \o rk3399_clock_init \o
  rk3399_configure_cpu(1300 * MHz, CPU_CLUSTER_LITTLE) \o
  rk3399_configure_cpu(1700 * MHz, CPU_CLUSTER_BIG)

\* HDCP and VIO share two registers.
rk3399_hdcp_set_clk(khz) ==
  LET a == GPLL_HZ \div khz
      hp == (2 * GPLL_HZ) \div khz
  IN << Assert(a \in 1 .. 32),
        ClrSet(42, Bits(14, 2) \cup Bits(8, 5), {14} \cup At(a - 1, 8)),
        Assert(hp \in 1 .. 32),
        ClrSet(43, Bits(10, 5) \cup Bits(5, 5), At(hp - 1, 10) \cup At(hp - 1, 5)) >>

\* Mistake: the mask of the divider of VIO lacks its width.
rk3399_vio_set_clk_wide(khz) ==
  << ClrSet(42, Bits(6, 2) \cup Bits(0, 5), {6} \cup At((GPLL_HZ \div khz) - 1, 0)),
     ClrSet(43, Bits(0, 8), At(((2 * GPLL_HZ) \div khz) - 1, 0)) >>

rk3399_vio_set_clk(khz) ==
  LET a == GPLL_HZ \div khz
      p == (2 * GPLL_HZ) \div khz
  IN << Assert(a \in 1 .. 32),
        ClrSet(42, Bits(6, 2) \cup Bits(0, 5), {6} \cup At(a - 1, 0)),
        Assert(p \in 1 .. 32),
        ClrSet(43, Bits(0, 5), At(p - 1, 0)) >>

(***************************************************************************)
(* pll_para_config: the post dividers that bring the VCO into its range,   *)
(* then the reference divider whose best feedback divider comes closest.   *)
(***************************************************************************)
\* Mistake: the first pair that is close enough is taken.
FirstMatch(diff, best) == best > 4 * MHz /\ diff < best

Closer(diff, best) == diff < best

Nearer(low, up) == IF up THEN low + 1 ELSE low

\* The feedback dividers that the search goes through.
FeedbackDividers == 17 .. 3199

\* The best pair b, or the pair with r as its reference divider if that one brings
\* the VCO closer to vco.
NextPair(vco, r, b) ==
  LET fref == OSC_HZ \div r
      low == vco \div fref
      rest == vco - low * fref
      up == low + 1 < 3200 /\ rest > fref \div 2
      diff == IF up THEN fref - rest ELSE rest
  IN IF b.diff # 0 /\ low \in FeedbackDividers /\ Closer(diff, b.diff)
     THEN [refdiv |-> r, fbdiv |-> Nearer(low, up), diff |-> diff]
     ELSE b

\* The best pair for a VCO of vco; best[r] is the best up to the reference divider r.
BestPair(vco) ==
  LET best[r \in 0 .. 62] == IF r = 0 THEN [refdiv |-> 0, fbdiv |-> 0, diff |-> vco]
                             ELSE NextPair(vco, r, best[r - 1])
  IN best[62]

PostDividers(khz) ==
  LET p == DIV_ROUND_UP(800 * MHz, khz)
      second == DIV_ROUND_UP(p, 7)
  IN IF p <= 7 THEN [postdiv1 |-> p, postdiv2 |-> 1]
     ELSE [postdiv1 |-> DIV_ROUND_UP(p, second), postdiv2 |-> second]

\* Frequencies whose VCO the first test of pll_para_config accepts.
HasVco(khz) == LET post == PostDividers(khz)
               IN VcoInRange(khz * post.postdiv1 * post.postdiv2) /\ post.postdiv2 <= 7

pll_para_config(khz) ==
  LET post == PostDividers(khz)
      pair == BestPair(khz * post.postdiv1 * post.postdiv2)
  IN IF ~HasVco(khz) THEN [ret |-> -1]
     ELSE [ret |-> IF pair.diff > 4 * MHz THEN -1 ELSE 0,
           div |-> [refdiv |-> pair.refdiv, fbdiv |-> pair.fbdiv,
                    postdiv1 |-> post.postdiv1, postdiv2 |-> post.postdiv2]]

\* The divider of the PWM clock is shifted by its mask, 31 bits, so that it becomes
\* 0.  A rate that has no configuration fails after the buses were set.
rk3399_vop_set_clk(vop, khz) ==
  LET config == pll_para_config(khz)
  IN << ClrSet(47 + vop, Bits(6, 2) \cup Bits(0, 5), At(2, 6) \cup At(AtLeast(GPLL_HZ, 400 * MHz), 0)),
        ClrSet(47 + vop, Bits(8, 5), At(AtLeast(GPLL_HZ, 100 * MHz), 8)),
        ClrSet(51 + vop, {6} \cup Bits(0, 5), At(2, 6) \cup At(AtLeast(GPLL_HZ, 100 * MHz), 31)),
        Assert(config.ret = 0) >> \o
     IF config.ret # 0 THEN << >>
     ELSE rkclk_set_pll("vpll", config.div) \o
          << ClrSet(49 + vop, {11} \cup Bits(8, 2) \cup Bits(0, 8), {}) >>

(***************************************************************************)
(* The steps.                                                              *)
(***************************************************************************)
Init ==
  /\ pll = [p \in PLLs |-> [mode |-> "slow", integer |-> FALSE, locked |-> FALSE,
                            refdiv |-> 1, fbdiv |-> 0, postdiv1 |-> 1, postdiv2 |-> 1]]
  /\ \E bits \in Resets : clksel = [r \in Registers |-> bits]
  /\ todo = ArmPlatformInitialize
  /\ asked = [little |-> 1300 * MHz, big |-> 1700 * MHz, hdcp |-> 0, vio |-> 0, pixel |-> 0]
  /\ asserted = FALSE /\ outside = FALSE
  /\ calls = 0

\* What the unit can give: the dividers of the buses have five bits, half the rate
\* included, and the VCO of a PLL runs from 800 MHz to 3200 MHz, with post dividers
\* of at most 7.  These are the pixel rates that pll_para_config accepts.
Supported(consumer, khz) ==
  CASE consumer \in {"hdcp", "vio"} -> khz >= 50 * MHz
    [] consumer = "pixel" -> 16327 <= khz /\ khz <= 3200 * MHz
    [] OTHER -> TRUE

\* Above 3198 MHz an accepted rate may still fail the assertion on the VCO: the search
\* reckons with a reference of whole kHz, rounded down, and may take a pair whose real
\* VCO is above the range, refdiv 21 and fbdiv 2802 for 3199884 kHz, 3202285 kHz.
Overshoots(consumer, khz) == consumer = "pixel" /\ khz > 3198 * MHz

Call(program, consumer, khz) ==
  /\ todo = << >> /\ calls < MaxCalls
  /\ todo' = program
  /\ asked' = [asked EXCEPT ![consumer] = khz]
  /\ outside' = (outside \/ ~Supported(consumer, khz) \/ Overshoots(consumer, khz))
  /\ calls' = calls + 1
  /\ UNCHANGED <<pll, clksel, asserted>>

Calling ==
  \/ \E khz \in ApllFrequencies, c \in CpuClusters : Call(rk3399_configure_cpu(khz, c), c, khz)
  \/ \E khz \in BusRates : \/ Call(rk3399_hdcp_set_clk(khz), "hdcp", khz)
                           \/ Call(rk3399_vio_set_clk(khz), "vio", khz)
  \/ \E khz \in PixelRates, vop \in {0, 1} : Call(rk3399_vop_set_clk(vop, khz), "pixel", khz)

Next1 == Head(todo)
Does(op) == todo # << >> /\ Next1.op = op
Proceed == todo' = Tail(todo) /\ UNCHANGED <<asked, outside, calls>>

Write ==
  /\ Does("write") /\ Proceed
  /\ clksel' = [clksel EXCEPT ![Next1.reg] =
                  (@ \ Next1.mask) \cup Next1.set]
  /\ UNCHANGED <<pll, asserted>>

CheckAssertion ==
  /\ Does("assert") /\ Proceed
  /\ asserted' = (asserted \/ ~Next1.holds)
  /\ UNCHANGED <<pll, clksel>>

SetMode ==
  /\ todo # << >> /\ Next1.op \in {"slow", "normal", "integer"} /\ Proceed
  /\ pll' = [pll EXCEPT ![Next1.pll] =
               IF Next1.op = "integer" THEN [@ EXCEPT !.integer = TRUE]
                                       ELSE [@ EXCEPT !.mode = Next1.op]]
  /\ UNCHANGED <<clksel, asserted>>

\* A PLL whose dividers are written loses its lock.
SetDividers ==
  /\ todo # << >> /\ Next1.op \in {"fbdiv", "divisors"} /\ Proceed
  /\ pll' = [pll EXCEPT ![Next1.pll] =
               IF Next1.op = "fbdiv" THEN [@ EXCEPT !.locked = FALSE, !.fbdiv = Next1.div.fbdiv]
               ELSE [@ EXCEPT !.locked = FALSE, !.refdiv = Next1.div.refdiv,
                              !.postdiv1 = Next1.div.postdiv1, !.postdiv2 = Next1.div.postdiv2]]
  /\ UNCHANGED <<clksel, asserted>>

\* The spin on the lock bit has no bound.
Spin == Does("lock") /\ UNCHANGED vars

WaitForLock ==
  /\ Does("lock") /\ pll[Next1.pll].locked /\ Proceed
  /\ UNCHANGED <<pll, clksel, asserted>>

\* The hardware: a PLL locks on what its dividers say.
Lock(p) ==
  /\ ~pll[p].locked /\ pll[p].integer /\ pll[p].fbdiv # 0
  /\ pll' = [pll EXCEPT ![p].locked = TRUE]
  /\ UNCHANGED <<clksel, todo, asked, asserted, outside, calls>>

Idle == todo = << >> /\ calls = MaxCalls /\ UNCHANGED vars

Driver == Write \/ CheckAssertion \/ SetMode \/ SetDividers \/ WaitForLock

Next == Calling \/ Driver \/ Spin \/ (\E p \in PLLs : Lock(p)) \/ Idle

Spec == Init /\ [][Next]_vars

(***************************************************************************)
(* What the registers say.                                                 *)
(***************************************************************************)

\* The quotient is truncated to MHz.
rkclk_pll_get_rate(r) ==
  IF r.mode = "slow" THEN OSC_HZ
  ELSE ((24 * r.fbdiv) \div (r.refdiv * r.postdiv1 * r.postdiv2)) * MHz

\* What a divider field divides by; no field is wider than five bits.
Divider(reg, shift, width) ==
  LET bit(i) == IF i < width /\ shift + i \in clksel[reg] THEN 1 ELSE 0
  IN 1 + bit(0) + 2 * bit(1) + 4 * bit(2) + 8 * bit(3) + 16 * bit(4)

(***************************************************************************)
(* Correctness.                                                            *)
(***************************************************************************)
AtRest == todo = << >>

\* "We must force PLL into slow mode to ensure output stable clock": a PLL feeds
\* its consumers only while it is locked, in every state between two writes.
FeedsOnlyLocked ==
  \A p \in PLLs : pll[p].mode = "normal" => pll[p].locked

\* At rest the buses of a cluster are near their nominal rates, 300 MHz and 100 MHz,
\* which the assertions of rk3399_configure_cpu take for the least a bus may run at: a
\* divider is never smaller than the one that keeps to that, so that a bus exceeds its
\* nominal rate by less than one part in its divider (408 MHz from 816 MHz), and the
\* trace clock is never slower than nominal.  The stale bits that the short masks leave
\* can only make the other two dividers larger.
CpuBusesNearNominal ==
  AtRest => \A c \in Clusters :
    LET base == IF c = "little" THEN 0 ELSE 2 IN
    /\ asked[c] < (Divider(base, 8, 5) + 1) * (300 * MHz)
    /\ asked[c] < (Divider(base + 1, 8, 5) + 1) * (100 * MHz)
    /\ Divider(base + 1, 0, 5) * (300 * MHz) <= asked[c]
    /\ asked[c] < (Divider(base + 1, 0, 5) + 1) * (300 * MHz)

\* After the start the buses of the peripherals keep to their rates, ACLK, HCLK and
\* PCLK of each: what is left in the divider of register 25 only slows it down.
PeripheralBusesInLimits ==
  AtRest =>
    /\ Divider(14, 0, 5) * 150 >= 800
    /\ Divider(14, 0, 5) * Divider(14, 8, 2) * 75 >= 800
    /\ Divider(14, 0, 5) * Divider(14, 12, 3) * 37500 >= 800 * MHz
    /\ Divider(23, 0, 5) * 300 >= 800
    /\ Divider(23, 0, 5) * Divider(23, 8, 2) * 100 >= 800
    /\ Divider(23, 0, 5) * Divider(23, 12, 3) * 50 >= 800
    /\ Divider(25, 0, 5) * 100 >= 800
    /\ Divider(25, 0, 5) * Divider(25, 8, 3) * 50 >= 800

\* No assertion fails, neither on the dividers nor on the VCO after rounding, for
\* any sequence of rates that the unit can give and the search does not overshoot.
AssertionsHold == asserted => outside

\* The dividers of the buses are right: none of them fails an assertion on its way;
\* at rest no bus of a cluster is further above its nominal rate than the rounding of
\* its divider makes it, and no bus of the peripherals is above its rate.
DividersRight == AssertionsHold /\ CpuBusesNearNominal /\ PeripheralBusesInLimits

\* HDCP and VIO each keep the rate they were last given, though their dividers
\* share two registers and are set in any order.
SettingsKept ==
  AtRest /\ ~asserted =>
    /\ asked.hdcp # 0 =>
         /\ Divider(42, 8, 5) = GPLL_HZ \div asked.hdcp
         /\ Divider(43, 10, 5) = (2 * GPLL_HZ) \div asked.hdcp
         /\ Divider(43, 5, 5) = Divider(43, 10, 5)
    /\ asked.vio # 0 =>
         /\ Divider(42, 0, 5) = GPLL_HZ \div asked.vio
         /\ Divider(43, 0, 5) = (2 * GPLL_HZ) \div asked.vio

\* No pair of dividers brings the VCO closer to its target than the one that
\* pll_para_config finds, by the code's own reckoning.
BestPairFound ==
  AtRest /\ calls = 0 =>
    \A khz \in {k \in PixelRates : HasVco(k)} :
      LET post == PostDividers(khz)
          vco == khz * post.postdiv1 * post.postdiv2
          best == BestPair(vco)
      IN \A refdiv \in 1 .. 62 :
           LET fref == OSC_HZ \div refdiv
           IN \A fbdiv \in FeedbackDividers :
                best.diff <= IF fbdiv * fref > vco THEN fbdiv * fref - vco ELSE vco - fbdiv * fref

\* A pixel clock that is accepted is made from a VCO within 4 MHz of its target, the
\* truncation of the reference included, whatever was asked for before and even where
\* the VCO is above its range.
PixelClockAccurate ==
  AtRest /\ Supported("pixel", asked.pixel) =>
    LET v == pll["vpll"]
        target == asked.pixel * v.postdiv1 * v.postdiv2 * v.refdiv
        got == OSC_HZ * v.fbdiv
    IN (IF got > target THEN got - target ELSE target - got) <= 4 * MHz * v.refdiv

\* The rate reported for a PLL of the start is the one it was set to, up to the
\* rounding of its feedback divider.
RateReported ==
  AtRest => \A p \in {"ppll", "gpll", "npll", "cpll"} :
    rkclk_pll_get_rate(pll[p]) \in InitFrequency[p] - 24 * MHz .. InitFrequency[p]

\* What the code computes of a PLL, its dividers or its rate, is right: the dividers
\* for a pixel clock are the best and good enough, and a rate read back is the one set.
RatesRight == BestPairFound /\ PixelClockAccurate /\ RateReported
=============================================================================
