SPECIFICATION Spec
CONSTANTS
  limb_bits = 4
  limb_digits_10 = 1
  MaxBits = 20
  BigOps = 4
  IntegerChars = {"0", "1", "7", "8", "2", "x", "f", "b", "+", "-", "."}
  MaxText = 5
  Bits = 8
  WordBits = 7
  ChunkDigits = 2
  WriteValues <- MCWriteValues
  significand_size = 12
  mantissa_bits = 4
  exponent_bits = 8
  exponent_bias = 7
  digits10 = 3
  pow_10_step = 2
  pow_10_first <- MCFirst
  pow_10_last = 7
  minimal_target_exp <- MCTarget
  negative_cutoff <- MCCutoff
  positive_cutoff = 2
  float_limb_bits = 14
  float_limb_digits_10 = 4
  FloatChars = {"0", "1", "3", "5", "9", ".", "e", "-", "f", "8", "p"}
  FloatSeeds <- MCFloatSeeds
  MaxTyped = 4
  MbpFields <- MCFields
  MaxFields = 2
  MaxMarks = 2
  StoreType <- MCType
  Name = "o"
  Values <- MCValues
  Radix = 2
  small_string_size = 4
  StoreOps = 3
INVARIANT UnsignedReadBack
CHECK_DEADLOCK FALSE
