CONSTANTS
  main = main
  f = f
  g = g
  h = h
  n1 = n1
  n2 = n2
  n3 = n3
  Lambdas = {main, f, g, h}
  Natives = {n1, n2, n3}
  Programs <- MCLivePrograms
  Null = Null
  NoAddress = NoAddress
  MaxEvals = 1
  MaxDepth = 7
SPECIFICATION LiveSpec
PROPERTIES Terminates
