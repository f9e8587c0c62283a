\* A password login, keys, and a sign-out, on a screen that is opened twice.
SPECIFICATION Spec
CONSTANTS
  Logins = {"login"}
  KeySaves = {"keys"}
  CookieSaves = {"cookie"}
  SignOuts = {"out"}
  Visits = 2
INVARIANT StatusHonest
PROPERTY SavesAtomic
