CONSTANTS
  main = main
  f = f
  g = g
  h = h
  n1 = n1
  n2 = n2
  n3 = n3
  Lambdas = {main, f, g, h}
  Natives = {n1, n2, n3}
  Programs <- MCStat
  Null = Null
  NoAddress = NoAddress
  MaxEvals = 1
  MaxDepth = 5
SPECIFICATION Spec
PROPERTIES StatErrorsReported
