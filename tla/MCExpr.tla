------------------------------- MODULE MCExpr -------------------------------
(* Instances of ExprOps for TLC. *)
EXTENDS ExprOps

MCA    == {"bvadd", "bvsub", "bvmul", "bvshl", "bvashr", "bvlshr", "bvand", "bvor",
           "bvxor", "bvurem", "concat", "half", "sextOrTrunc", "zextOrTrunc", "ule", "eq", "bvnot"}
MCB    == {"bvadd", "concat", "bvand", "bvashr", "eq", "zextOrTrunc"}
MCLast == MCA \cup CmpOps \cup BoolOps \cup Unary \cup
  {"bvsdiv", "bvudiv", "bvsrem", "sadd_sat", "uadd_sat", "ssub_sat", "usub_sat",
   "sshl_sat", "ushl_sat", "add_nsw", "add_nuw", "add_nus", "sub_nsw", "sub_nuw",
   "mul_nsw", "mul_nuw", "shl_nsw", "shl_nuw", "ashr_exact", "lshr_exact",
   "sdiv_exact", "udiv_exact", "fshl", "fshr", "smul_fix", "smul_fix_nsw",
   "smul_fix_sat", "umul_fix", "umul_fix_nuw", "umul_fix_sat", "cttz", "clmul",
   "pext", "pdep", "umin", "umax", "smin", "smax", "round_up_bits",
   "round_up_bits_nuw", "copysign"}
=============================================================================
